---- MODULE Spec2Model ----
(***************************************************************************)
(* Verification model of the KCL collision compiler (kcl.py): the vertex   *)
(* welder, the triangle/cube overlap predicate, the octree builder and the *)
(* pack orchestration.                                                     *)
(*                                                                         *)
(* Numbers.  The code computes with Python floats.  The model computes     *)
(* with exact integers: a length k of the model stands for k quarter       *)
(* units of the source (so that half widths of cubes of side 1 and the     *)
(* welding threshold 2**(-1) are whole numbers).  Every operation of the   *)
(* octree and of the welder is invariant under that change of unit.        *)
(* Unit vectors (normals) are irrational; where only their direction       *)
(* matters (tribox_overlap, signs) the model keeps the exact unnormalised  *)
(* vector, and where their value matters (the normal welder) it rounds     *)
(* them to a fixed-point grid (unit).                                      *)
(***************************************************************************)
EXTENDS Integers, Sequences, FiniteSets, TLC

VARIABLES
    welder,     \* a VertexWelder: [threshold, cell_width, buckets, vertices]
    wlast,      \* the last VertexWelder.add call: its argument and its result
    octree,     \* an Octree under construction
    opc,        \* position inside Octree.__init__
    pk,         \* a call of kcl.pack: its arguments, locals, sink and position
    bcsv,       \* a surface-type list on its way through pack and unpack
    obj,        \* a call of WavefrontOBJ.unpack: lines left and locals
    editor      \* the editor: its group widget and its builder thread

vars == <<welder, wlast, octree, opc, pk, bcsv, obj, editor>>

-----------------------------------------------------------------------------
(* Vector (kcl.py 17-63)                                                   *)

Vector(x, y, z) == [x |-> x, y |-> y, z |-> z]

VAdd(a, b) == Vector(a.x + b.x, a.y + b.y, a.z + b.z)

VSub(a, b) == Vector(a.x - b.x, a.y - b.y, a.z - b.z)

VMul(a, s) == Vector(a.x * s, a.y * s, a.z * s)

norm_square(a) == a.x * a.x + a.y * a.y + a.z * a.z

dot(a, b) == a.x * b.x + a.y * b.y + a.z * b.z

cross(a, b) ==
    Vector(a.y * b.z - a.z * b.y, a.z * b.x - a.x * b.z, a.x * b.y - a.y * b.x)

Abs(a) == IF a < 0 THEN -a ELSE a

Min2(a, b) == IF a < b THEN a ELSE b

Max2(a, b) == IF a > b THEN a ELSE b

\* Python's int() of a quotient a/b with b > 0: truncation toward zero.
IntDiv(a, b) == IF a >= 0 THEN a \div b ELSE -((-a) \div b)

\* F(x), with x evaluated once.
Bind(x, F(_)) == CHOOSE v \in {F(r) : r \in {x}} : TRUE

\* Triangle.__init__: n is kept unnormalised; it stands for cross(...).unit().
Triangle(u, v, w, group_index) ==
    [u |-> u, v |-> v, w |-> w,
     n |-> cross(VSub(v, u), VSub(w, u)),
     group_index |-> group_index]

-----------------------------------------------------------------------------
(* VertexWelder (kcl.py 116-156)                                           *)

\* The three magic primes, split in 16-bit halves: 0x8DA6B343, 0xD8163841,
\* 0x61B40079 exceed 32-bit integers, and only their residues modulo
\* the bucket count are ever used.
magic_x_hi == 36262
magic_x_lo == 45891
magic_y_hi == 55318
magic_y_lo == 14401
magic_z_hi == 25012
magic_z_lo == 121

MagicMod(hi, lo, m) == ((hi % m) * (65536 % m) + (lo % m)) % m

NewWelder(threshold, bucket_count) ==
    [threshold |-> threshold,
     cell_width |-> 16 * threshold,
     buckets |-> [b \in 1..bucket_count |-> <<>>],
     vertices |-> <<>>]

\* calculate_hash; the result is the 1-based position of buckets[hash].
calculate_hash(w, ix, iy, iz) ==
    LET m == Len(w.buckets)
    IN  (((ix % m) * MagicMod(magic_x_hi, magic_x_lo, m)
          + (iy % m) * MagicMod(magic_y_hi, magic_y_lo, m)
          + (iz % m) * MagicMod(magic_z_hi, magic_z_lo, m)) % m) + 1

\* The comparison of lines 145-147.
WithinThreshold(w, vertex, index) ==
    /\ Abs(vertex.x - w.vertices[index].x) < w.threshold
    /\ Abs(vertex.y - w.vertices[index].y) < w.threshold
    /\ Abs(vertex.z - w.vertices[index].z) < w.threshold

\* A welder that looks only into the cell of the vertex itself.
ScanCells_OwnCell(w, vertex) ==
    <<  <<IntDiv(vertex.x, w.cell_width), IntDiv(vertex.y, w.cell_width),
          IntDiv(vertex.z, w.cell_width)>>  >>

\* The cells the loops of lines 140-142 visit, in the order they visit them.
ScanCells(w, vertex) ==
    LET min_ix == IntDiv(vertex.x - w.threshold, w.cell_width)
        min_iy == IntDiv(vertex.y - w.threshold, w.cell_width)
        min_iz == IntDiv(vertex.z - w.threshold, w.cell_width)
        max_ix == IntDiv(vertex.x + w.threshold, w.cell_width)
        max_iy == IntDiv(vertex.y + w.threshold, w.cell_width)
        max_iz == IntDiv(vertex.z + w.threshold, w.cell_width)
        cx == max_ix - min_ix + 1
        cy == max_iy - min_iy + 1
        cz == max_iz - min_iz + 1
    IN  [n \in 1..(cx * cy * cz) |->
            <<min_ix + ((n - 1) \div (cy * cz)),
              min_iy + (((n - 1) \div cz) % cy),
              min_iz + ((n - 1) % cz)>>]

\* The candidate indices in the order lines 140-144 meet them.
RECURSIVE ScanOrder(_, _, _)
ScanOrder(w, cells, n) ==
    IF n > Len(cells) THEN <<>>
    ELSE w.buckets[calculate_hash(w, cells[n][1], cells[n][2], cells[n][3])]
            \o ScanOrder(w, cells, n + 1)

\* A welder that keeps scanning and returns the last candidate it accepts.
FirstMatch_Last(w, vertex) ==
    LET cand == ScanOrder(w, ScanCells(w, vertex), 1)
        hits == SelectSeq(cand, LAMBDA index : WithinThreshold(w, vertex, index))
    IN  IF hits = <<>> THEN 0 ELSE hits[Len(hits)]

\* The first candidate within the threshold (line 148), or 0 when there is none.
FirstMatch(w, vertex) ==
    LET cand == ScanOrder(w, ScanCells(w, vertex), 1)
        hits == SelectSeq(cand, LAMBDA index : WithinThreshold(w, vertex, index))
    IN  IF hits = <<>> THEN 0 ELSE hits[1]

\* VertexWelder.add: the welder after the call and the returned index
\* (1-based: the code's index plus one).
add(w, vertex) ==
    LET Result(found) ==
            IF found # 0
            THEN [welder |-> w, index |-> found]
            ELSE LET ix == IntDiv(vertex.x, w.cell_width)
                     iy == IntDiv(vertex.y, w.cell_width)
                     iz == IntDiv(vertex.z, w.cell_width)
                     h == calculate_hash(w, ix, iy, iz)
                     n == Len(w.vertices) + 1
                 IN  [welder |-> [w EXCEPT !.vertices = Append(@, vertex),
                                           !.buckets[h] = Append(@, n)],
                      index |-> n]
    IN  Bind(FirstMatch(w, vertex), Result)

-----------------------------------------------------------------------------
(* tribox_overlap (kcl.py 162-222)                                         *)

\* edge_axis_test, with the half_width of the enclosing call.
edge_axis_test(half_width, a1, a2, b1, b2, c1, c2) ==
    LET p == a1 * b1 + a2 * b2
        q == a1 * c1 + a2 * c2
        r == half_width * (Abs(a1) + Abs(a2))
    IN  (p < -r /\ q < -r) \/ (p > r /\ q > r)

\* edge_test; v0, v1, v2 are vectors relative to the center of the cube.
edge_test(half_width, v0, v1, v2) ==
    LET e_x == v1.x - v0.x
        e_y == v1.y - v0.y
        e_z == v1.z - v0.z
    IN  \/ edge_axis_test(half_width, e_z, -e_y, v0.y, v0.z, v2.y, v2.z)
        \/ edge_axis_test(half_width, -e_z, e_x, v0.x, v0.z, v2.x, v2.z)
        \/ edge_axis_test(half_width, e_y, -e_x, v0.x, v0.y, v2.x, v2.y)

\* Separation along the axes normal to the faces of the cube (lines 184-190).
\* Here every comparison also counts a vertex on the face as outside.
FaceSeparated_Closed(half_width, u, v, w) ==
    \/ (u.x <= -half_width /\ v.x <= -half_width /\ w.x <= -half_width)
    \/ (u.x >= half_width /\ v.x >= half_width /\ w.x >= half_width)
    \/ (u.y <= -half_width /\ v.y <= -half_width /\ w.y <= -half_width)
    \/ (u.y >= half_width /\ v.y >= half_width /\ w.y >= half_width)
    \/ (u.z <= -half_width /\ v.z <= -half_width /\ w.z <= -half_width)
    \/ (u.z >= half_width /\ v.z >= half_width /\ w.z >= half_width)

\* Separation along the axes normal to the faces of the cube (lines 184-190).
FaceSeparated(half_width, u, v, w) ==
    \/ (u.x < -half_width /\ v.x < -half_width /\ w.x < -half_width)
    \/ (u.x > half_width /\ v.x > half_width /\ w.x > half_width)
    \/ (u.y < -half_width /\ v.y < -half_width /\ w.y < -half_width)
    \/ (u.y > half_width /\ v.y > half_width /\ w.y > half_width)
    \/ (u.z < -half_width /\ v.z < -half_width /\ w.z < -half_width)
    \/ (u.z > half_width /\ v.z > half_width /\ w.z > half_width)

\* triangle.n is the unnormalised normal: d and r of lines 194-195 are both
\* scaled by its (positive) length, which leaves the comparison unchanged.
tribox_overlap(triangle, center, half_width) ==
    LET u == VSub(triangle.u, center)
        v == VSub(triangle.v, center)
        w == VSub(triangle.w, center)
        n == triangle.n
        d == n.x * u.x + n.y * u.y + n.z * u.z
        r == half_width * (Abs(n.x) + Abs(n.y) + Abs(n.z))
    IN  /\ ~FaceSeparated(half_width, u, v, w)
        /\ ~(d < -r \/ d > r)
        /\ ~(\/ edge_test(half_width, u, v, w)
             \/ edge_test(half_width, v, w, u)
             \/ edge_test(half_width, w, u, v))

-----------------------------------------------------------------------------
(* Octree (kcl.py 225-299)                                                 *)

\* A node is a record.  is_leaf, indices and children are the attributes the
\* code sets.  The fields built_base, built_width and built_count are history
\* only: the cube Octree.node was called with and the number of triangles it
\* found overlapping it.  Triangle indices are 1-based (the code's plus one).

\* The corner of octant c (1-based, i + 2*j + 4*k = c - 1) of the cube at
\* base: base + half_width*Vector(i,j,k) of line 292.
OctantBase(base, half_width, c) ==
    VAdd(base, VMul(Vector((c - 1) % 2, ((c - 1) \div 2) % 2, (c - 1) \div 4),
                    half_width))

\* The filter of line 289 left out: every candidate is kept.
Overlapping_All(triangles, indices, center, half_width) == indices

\* Line 289: the candidates that overlap the cube, in their order.
Overlapping(triangles, indices, center, half_width) ==
    SelectSeq(indices, LAMBDA i : tribox_overlap(triangles[i], center, half_width))

\* The test of line 291 with the floor put on the width, not the half width.
NodeSplits_WidthFloor(count, half_width, max_triangles, min_width) ==
    count > max_triangles /\ 2 * half_width >= min_width

\* Line 291.
NodeSplits(count, half_width, max_triangles, min_width) ==
    count > max_triangles /\ half_width >= min_width

\* Octree.node (lines 284-299).  The children are listed for k, j, i in
\* range(2) with i fastest: child c (1-based) is octant i + 2*j + 4*k = c - 1.
RECURSIVE node(_, _, _, _, _, _)
node(triangles, max_triangles, min_width, base, width, indices) ==
    LET half_width == width \div 2
        center == VAdd(base, Vector(half_width, half_width, half_width))
        Build(kept) ==
            IF NodeSplits(Len(kept), half_width, max_triangles, min_width)
            THEN [is_leaf |-> FALSE,
                  children |->
                      [c \in 1..8 |->
                          Bind(OctantBase(base, half_width, c),
                               LAMBDA b : node(triangles, max_triangles, min_width,
                                               b, half_width, kept))],
                  built_base |-> base, built_width |-> width,
                  built_count |-> Len(kept)]
            ELSE [is_leaf |-> TRUE, indices |-> kept,
                  built_base |-> base, built_width |-> width,
                  built_count |-> Len(kept)]
    IN  Bind(Overlapping(triangles, indices, center, half_width), Build)

SetMin(S) == CHOOSE m \in S : \A n \in S : m <= n

SetMax(S) == CHOOSE m \in S : \A n \in S : m >= n

\* 2**int(ceil(log(x,2))) for x >= 1: the least power of two that is >= x.
RECURSIVE Pow2From(_, _)
Pow2From(p, x) == IF p >= x THEN p ELSE Pow2From(2 * p, x)

Pow2Ceil(x) == Pow2From(1, x)

\* The top level cell (i, j, k) as a 1-based position in children
\* (line 269: for k ... for j ... for i ...).
CellI(n, nx, ny) == (n - 1) % nx
CellJ(n, nx, ny) == ((n - 1) \div nx) % ny
CellK(n, nx, ny) == (n - 1) \div (nx * ny)

\* The top level cubes sized by the largest width instead of the smallest.
TopWidth_Max(width_x, width_y, width_z) == Max2(width_x, Max2(width_y, width_z))

\* Line 261.
TopWidth(width_x, width_y, width_z) == Min2(width_x, Min2(width_y, width_z))

\* Lines 247-258: base and widths of the bounding box.
BoundingBox(triangles, min_width) ==
    LET T == 1..Len(triangles)
        xs == UNION {{triangles[t].u.x, triangles[t].v.x, triangles[t].w.x} : t \in T}
        ys == UNION {{triangles[t].u.y, triangles[t].v.y, triangles[t].w.y} : t \in T}
        zs == UNION {{triangles[t].u.z, triangles[t].v.z, triangles[t].w.z} : t \in T}
    IN  [base |-> Vector(SetMin(xs), SetMin(ys), SetMin(zs)),
         width_x |-> Pow2Ceil(Max2(SetMax(xs) - SetMin(xs), min_width)),
         width_y |-> Pow2Ceil(Max2(SetMax(ys) - SetMin(ys), min_width)),
         width_z |-> Pow2Ceil(Max2(SetMax(zs) - SetMin(zs), min_width))]

\* Octree.__init__ up to line 269: the octree before the flattening loop.
OctreeNew(triangles, max_triangles, min_width) ==
    LET Grid(bb) ==
            LET base_width == TopWidth(bb.width_x, bb.width_y, bb.width_z)
                nx == bb.width_x \div base_width
                ny == bb.width_y \div base_width
                nz == bb.width_z \div base_width
            IN  [triangles |-> triangles, max_triangles |-> max_triangles,
                 min_width |-> min_width, base |-> bb.base,
                 width_x |-> bb.width_x, width_y |-> bb.width_y,
                 width_z |-> bb.width_z,
                 base_width |-> base_width, nx |-> nx, ny |-> ny, nz |-> nz,
                 children |->
                     [n \in 1..(nx * ny * nz) |->
                         Bind(VAdd(bb.base,
                                   VMul(Vector(CellI(n, nx, ny), CellJ(n, nx, ny),
                                               CellK(n, nx, ny)), base_width)),
                              LAMBDA b : node(triangles, max_triangles, min_width,
                                              b, base_width,
                                              [i \in 1..Len(triangles) |-> i]))]]
    IN  Bind(BoundingBox(triangles, min_width), Grid)

\* Octree.__getitem__ (line 282).
OctreeGetItem(o, i, j, k) == o.children[i + o.nx * (j + o.ny * k) + 1]

\* Octree.Node.__getitem__ (lines 236-240).
NodeGetItem(nd, i, j, k) ==
    IF nd.is_leaf THEN nd ELSE nd.children[i + 2 * (j + 2 * k) + 1]

\* The loop condition of line 273, with > in place of >=.
BranchRatioHigh_Strict(o) ==
    8 * Cardinality({n \in 1..Len(o.children) : ~o.children[n].is_leaf})
        > 7 * (o.nx * o.ny * o.nz)

\* The loop condition of line 273: branches/(nx*ny*nz) >= 0.875.
BranchRatioHigh(o) ==
    8 * Cardinality({n \in 1..Len(o.children) : ~o.children[n].is_leaf})
        >= 7 * (o.nx * o.ny * o.nz)

\* One round of the loop, lines 274-279.
Flatten(o) ==
    [o EXCEPT
        !.children =
            [n \in 1..(8 * o.nx * o.ny * o.nz) |->
                LET i == CellI(n, 2 * o.nx, 2 * o.ny)
                    j == CellJ(n, 2 * o.nx, 2 * o.ny)
                    k == CellK(n, 2 * o.nx, 2 * o.ny)
                IN  NodeGetItem(OctreeGetItem(o, i \div 2, j \div 2, k \div 2),
                                i % 2, j % 2, k % 2)],
        !.base_width = @ \div 2,
        !.nx = @ * 2,
        !.ny = @ * 2,
        !.nz = @ * 2]

-----------------------------------------------------------------------------
(* Octree.pack (kcl.py 301-344): tables and index lists                    *)

\* The while loop of lines 311-322, branch part: branches[i] onward are
\* scanned, and every child that is not a leaf is appended.
RECURSIVE PackBranches(_, _)
PackBranches(branches, i) ==
    IF i > Len(branches) THEN branches
    ELSE Bind(branches \o SelectSeq(branches[i].children, LAMBDA nd : ~nd.is_leaf),
              LAMBDA bs : PackBranches(bs, i + 1))

\* Every table entry in the order it is written (lines 329-330).
RECURSIVE PackEntries(_, _)
PackEntries(branches, i) ==
    IF i > Len(branches) THEN <<>>
    ELSE branches[i].children \o PackEntries(branches, i + 1)

\* Line 316 left out: a tuple met again is stored again.
ListIsNew_Always(seen, indices) == TRUE

\* Line 316: node.indices in list_offsets.
ListIsNew(seen, indices) == \A k \in 1..Len(seen) : seen[k] # indices

\* The keys of list_offsets after lines 311-322: the non-empty index tuples
\* of the leaves that line 316 lets through, in the order they are met.  The
\* tuples met before entry e stand for the keys stored by then.
PackLists(entries) ==
    LET Met(e) == [d \in 1..(e - 1) |->
                      IF entries[d].is_leaf THEN entries[d].indices ELSE <<>>]
        Stored(e) == /\ entries[e].is_leaf
                     /\ entries[e].indices # <<>>
                     /\ ListIsNew(Met(e), entries[e].indices)
        firsts == SelectSeq([e \in 1..Len(entries) |-> e], Stored)
    IN  [k \in 1..Len(firsts) |-> entries[firsts[k]].indices]

RECURSIVE SumLen(_, _)
SumLen(lists, i) ==
    IF i > Len(lists) THEN 0 ELSE 2 * (Len(lists[i]) + 1) + SumLen(lists, i + 1)

\* list_offsets[indices] at line 332: the value lines 317-318 gave the tuple
\* when it was first met, and the value of line 325 for the empty tuple.
RECURSIVE ListOffset(_, _, _, _)
ListOffset(lists, indices, k, free_list_offset) ==
    IF indices = <<>> THEN SumLen(lists, 1) - 2
    ELSE IF lists[k] = indices THEN free_list_offset
    ELSE ListOffset(lists, indices, k + 1,
                    free_list_offset + 2 * (Len(lists[k]) + 1))

\* A uint32 word as its top bit and its low 31 bits; ok is FALSE where
\* uint32.pack is handed a negative number and raises.
U32(high, low) == [high |-> high, low |-> low, ok |-> low >= 0]

\* A leaf word that leaves out the - 2 of line 332.
LeafWord_NoBias(list_base, list_offset, branch_base) ==
    U32(1, list_base + list_offset - branch_base)

\* Line 332: 0x80000000 | (list_base + list_offsets[node.indices] - 2 - branch_base).
LeafWord(list_base, list_offset, branch_base) ==
    U32(1, list_base + list_offset - 2 - branch_base)

\* A branch word holding the offset from the start of the octree section.
BranchWord_Absolute(free_branch_offset, branch_base) == U32(0, free_branch_offset)

\* Line 334: free_branch_offset - branch_base.
BranchWord(free_branch_offset, branch_base) ==
    U32(0, free_branch_offset - branch_base)

\* What line 335 has added to free_branch_offset for the children of one
\* branch before child c.
RECURSIVE TablesBefore(_, _)
TablesBefore(children, c) ==
    IF c = 1 THEN 0
    ELSE TablesBefore(children, c - 1)
         + (IF children[c - 1].is_leaf THEN 0 ELSE 4 * Len(children[c - 1].children))

\* The loop of lines 328-337 from branch b on: the words written.
RECURSIVE PackWords(_, _, _, _, _, _)
PackWords(branches, b, branch_base, free_branch_offset, list_base, lists) ==
    IF b > Len(branches) THEN <<>>
    ELSE LET children == branches[b].children
             Word(c) ==
                 IF children[c].is_leaf
                 THEN LeafWord(list_base, ListOffset(lists, children[c].indices, 1, 0),
                               branch_base)
                 ELSE BranchWord(free_branch_offset + TablesBefore(children, c),
                                 branch_base)
         IN  [c \in 1..Len(children) |-> Word(c)]
             \o Bind(free_branch_offset + TablesBefore(children, Len(children) + 1),
                     LAMBDA f : PackWords(branches, b + 1,
                                          branch_base + 4 * Len(children),
                                          f, list_base, lists))

\* Lines 341-344: index + 1 of every index of every stored tuple, each tuple
\* closed by a zero.  An index of the model is that of the source plus one.
RECURSIVE ListWords(_, _)
ListWords(lists, k) ==
    IF k > Len(lists) THEN <<>>
    ELSE [n \in 1..(Len(lists[k]) + 1) |->
              IF n <= Len(lists[k]) THEN (lists[k][n] - 1) + 1 ELSE 0]
         \o ListWords(lists, k + 1)

\* What Octree.pack writes: branches[0] is the octree itself, whose children
\* are the top level grid.  Sizes are in bytes; words are the uint32 of the
\* tables and list_words the uint16 after them.
OctreePacked(o) ==
    LET Lists(branches, entries) ==
            Bind(PackLists(entries),
                 LAMBDA lists : [list_base |-> 4 * Len(entries),
                                 lists |-> lists,
                                 list_bytes |-> SumLen(lists, 1),
                                 entries |-> entries,
                                 words |-> PackWords(branches, 1, 0,
                                                     4 * Len(o.children),
                                                     4 * Len(entries), lists),
                                 list_words |-> ListWords(lists, 1)])
        Tables(branches) ==
            Bind(PackEntries(branches, 1),
                 LAMBDA entries : [branches |-> Len(branches)]
                                    @@ Lists(branches, entries))
    IN  Bind(PackBranches(<<[is_leaf |-> FALSE, children |-> o.children]>>, 1), Tables)

-----------------------------------------------------------------------------
(* kcl.pack (kcl.py 350-434)                                               *)

\* BasicType.size of uint16, uint32 and float32 (btypes.py 123-128).
uint16_size == 2
uint32_size == 4
float32_size == 4

\* StructMeta.__new__ (btypes.py 231-237): the size of a struct is the sum of
\* the sizes of its fields, in bytes.
RECURSIVE StructSize(_)
StructSize(fields) ==
    IF fields = <<>> THEN 0 ELSE Head(fields) + StructSize(Tail(fields))

\* Vector: x, y, z.
VectorFields == <<float32_size, float32_size, float32_size>>

\* Vector.sizeof()
VectorSize == StructSize(VectorFields)

\* Header (lines 351-362): vertex_offset, normal_offset, face_offset,
\* octree_offset, unknown0, base, x_mask, y_mask, z_mask, coordinate_shift,
\* y_shift, z_shift.
HeaderFields ==
    <<uint32_size, uint32_size, uint32_size, uint32_size, float32_size, VectorSize,
      uint32_size, uint32_size, uint32_size, uint32_size, uint32_size, uint32_size>>

\* Header.sizeof()
HeaderSize == StructSize(HeaderFields)

\* Face (lines 369-375): length, p_index, n_index, a_index, b_index, c_index,
\* group_index.
FaceFields ==
    <<float32_size, uint16_size, uint16_size, uint16_size, uint16_size, uint16_size,
      uint16_size>>

\* Face.sizeof()
FaceSize == StructSize(FaceFields)

\* The thresholds of the two welders of lines 385-386: 2**(-1) in quarter
\* units, and 2**(-22) in the unit of the model's unit vectors, 2**(-22).
VertexThreshold == 2
NormalThreshold == 1

\* 0xFFFF
U16Max == 65535

RECURSIVE Gcd(_, _)
Gcd(a, b) == IF b = 0 THEN a ELSE Gcd(b, a % b)

RECURSIVE SqrtSearch(_, _, _)
SqrtSearch(lo, hi, n) ==
    IF lo >= hi THEN lo
    ELSE LET mid == (lo + hi + 1) \div 2
         IN  IF mid * mid <= n THEN SqrtSearch(mid, hi, n)
             ELSE SqrtSearch(lo, mid - 1, n)

\* floor(sqrt(n)) for 0 <= n < 2^30.
Isqrt(n) == SqrtSearch(0, 32767, n)

\* The largest s <= 14 with n * 4^s < 2^30.
RECURSIVE SqrtShift(_, _)
SqrtShift(n, s) ==
    IF s < 14 /\ n < 268435456 THEN SqrtShift(n * 4, s + 1) ELSE s

\* Vector.unit (lines 56-57) of a non-zero vector, in fixed point: the result
\* has components in units of 2**(-22), rounded to 12 bits.  The vector is
\* first reduced to lowest terms, so that vectors of one direction get one
\* unit vector (the code's rounding errors are far below the welding
\* threshold of 2**(-22)).
unit(a) ==
    LET g == Gcd(Gcd(Abs(a.x), Abs(a.y)), Abs(a.z))
        Scaled(p) ==
            LET s == SqrtShift(norm_square(p), 0)
                root == Isqrt(norm_square(p) * 4 ^ s)
            IN  Vector(1024 * IntDiv(p.x * 4096 * 2 ^ s, root),
                       1024 * IntDiv(p.y * 4096 * 2 ^ s, root),
                       1024 * IntDiv(p.z * 4096 * 2 ^ s, root))
    IN  Bind(Vector(IntDiv(a.x, g), IntDiv(a.y, g), IntDiv(a.z, g)), Scaled)

\* The triangle list is held run-length encoded: a sequence of
\* [tri, count], count >= 1 copies of tri in a row.
RECURSIVE RunsLen(_, _)
RunsLen(runs, i) ==
    IF i > Len(runs) THEN 0 ELSE runs[i].count + RunsLen(runs, i + 1)

\* len(triangles)
NumTriangles(runs) == RunsLen(runs, 1)

\* ceil(a/b) for a >= 0, b > 0.
CeilDiv(a, b) == (a + b - 1) \div b

\* The gate of line 381 firing one face too early.
TooManyFaces_Early(count) == count >= U16Max - 2

\* The gate of line 381 firing one face too late.
TooManyFaces_Late(count) == count >= U16Max

\* Line 381: len(triangles) >= 0xFFFF - 1.
TooManyFaces(count) == count >= U16Max - 1

\* The position of a face taken from the second corner.
FacePosition_V(triangle) == triangle.v

\* Line 393: the position of a face is the corner u of its triangle.
FacePosition(triangle) == triangle.u

\* The normal of an edge taken with the factors of the product exchanged.
EdgeNormal_Exchanged(edge, n) == unit(cross(n, edge))

\* Lines 390-392: cross(edge, triangle.n).unit() of an edge vector.
EdgeNormal(edge, n) == unit(cross(edge, n))

\* One pass of the loop body, lines 389-398, on the welders ws.
WeldOne(ws, triangle) ==
    LET AddC(c, rp, rn, ra, rb) ==
            Bind(add(rb.welder, c),
                 LAMBDA rc :
                    [ws |-> [vertex_welder |-> rp.welder, normal_welder |-> rc.welder],
                     face |-> [length |-> dot(VSub(triangle.v, triangle.u), c),
                               p_index |-> rp.index, n_index |-> rn.index,
                               a_index |-> ra.index, b_index |-> rb.index,
                               c_index |-> rc.index,
                               group_index |-> triangle.group_index]])
        AddB(b, c, rp, rn, ra) ==
            Bind(add(ra.welder, b), LAMBDA rb : AddC(c, rp, rn, ra, rb))
        AddA(a, b, c, rp, rn) ==
            Bind(add(rn.welder, a), LAMBDA ra : AddB(b, c, rp, rn, ra))
        AddN(a, b, c, rp) ==
            Bind(add(ws.normal_welder, unit(triangle.n)),
                 LAMBDA rn : AddA(a, b, c, rp, rn))
        AddP(a, b, c) ==
            Bind(add(ws.vertex_welder, FacePosition(triangle)), LAMBDA rp : AddN(a, b, c, rp))
    IN  Bind(EdgeNormal(VSub(triangle.u, triangle.w), triangle.n),
          LAMBDA a :
            Bind(EdgeNormal(VSub(triangle.v, triangle.u), triangle.n),
              LAMBDA b :
                Bind(EdgeNormal(VSub(triangle.w, triangle.v), triangle.n),
                  LAMBDA c : AddP(a, b, c))))

\* The loop body on `count` copies of one triangle in a row.  Once a pass
\* leaves both welders as it found them, every further pass on the same
\* triangle does the same and yields the same face.
RECURSIVE WeldCopies(_, _, _, _)
WeldCopies(ws, triangle, count, faces) ==
    LET Rest(r) ==
            IF count = 1 \/ r.ws = ws
            THEN [ws |-> r.ws,
                  faces |-> Append(faces, [face |-> r.face, count |-> count])]
            ELSE Bind(Append(faces, [face |-> r.face, count |-> 1]),
                      LAMBDA fs : WeldCopies(r.ws, triangle, count - 1, fs))
    IN  Bind(WeldOne(ws, triangle), Rest)

\* The loop of lines 388-398 from run i on.
RECURSIVE WeldRuns(_, _, _, _)
WeldRuns(ws, runs, i, faces) ==
    IF i > Len(runs) THEN [ws |-> ws, faces |-> faces]
    ELSE Bind(WeldCopies(ws, runs[i].tri, runs[i].count, faces),
              LAMBDA r : WeldRuns(r.ws, runs, i + 1, r.faces))

\* stream.write of len bytes.
StreamWrite(stream, what, len) ==
    [pos |-> stream.pos + len,
     size |-> Max2(stream.size, stream.pos + len),
     writes |-> Append(stream.writes, [at |-> stream.pos, len |-> len, what |-> what])]

\* face_offset without the bias of one record.
FaceOffset_Unbiased(pos) == pos

\* Line 417: stream.tell() - Face.sizeof().
FaceOffset(pos) == pos - FaceSize

\* A seek that leaves the position where it is.
StreamSeek_Stay(stream, pos) == stream

\* stream.seek
StreamSeek(stream, pos) == [stream EXCEPT !.pos = pos]

\* The run-length encoded list written out.
RECURSIVE Expand(_, _)
Expand(runs, i) ==
    IF i > Len(runs) THEN <<>>
    ELSE [k \in 1..runs[i].count |-> runs[i].tri] \o Expand(runs, i + 1)

\* Lines 273-279: the whole flattening loop.
RECURSIVE FlattenLoop(_)
FlattenLoop(o) ==
    IF BranchRatioHigh(o) THEN Bind(Flatten(o), FlattenLoop) ELSE o

\* Octree(triangles, max_triangles, min_width)
Octree(triangles, max_triangles, min_width) ==
    Bind(OctreeNew(triangles, max_triangles, min_width), FlattenLoop)

\* The number of binary digits of n in place of its logarithm.
RECURSIVE Log2_BitLength(_)
Log2_BitLength(n) == IF n < 1 THEN 0 ELSE 1 + Log2_BitLength(n \div 2)

\* int(log(n,2)) for a power of two n.
RECURSIVE Log2(_)
Log2(n) == IF n <= 1 THEN 0 ELSE 1 + Log2(n \div 2)

\* ~(width - 1) & 0xFFFFFFFF for a power of two width, as two 16-bit halves.
Mask32(width) ==
    [hi |-> 65535 - ((width - 1) \div 65536),
     lo |-> (65536 - (width % 65536)) % 65536]

-----------------------------------------------------------------------------
(* bcsv.py: the table format of the surface types                          *)

\* A uint32 as its two 16-bit halves.
Word(v) == [hi |-> v \div 65536, lo |-> v % 65536]

\* The value of a word below 2^31.
WordValue(w) == w.hi * 65536 + w.lo

\* a | b and a & b of Python on numbers below 2^16.
RECURSIVE BitOr16(_, _, _)
BitOr16(a, b, bits) ==
    IF bits = 0 THEN 0
    ELSE (IF a % 2 = 1 \/ b % 2 = 1 THEN 1 ELSE 0)
         + 2 * BitOr16(a \div 2, b \div 2, bits - 1)

RECURSIVE BitAnd16(_, _, _)
BitAnd16(a, b, bits) ==
    IF bits = 0 THEN 0
    ELSE (IF a % 2 = 1 /\ b % 2 = 1 THEN 1 ELSE 0)
         + 2 * BitAnd16(a \div 2, b \div 2, bits - 1)

WordOr(a, b) == [hi |-> BitOr16(a.hi, b.hi, 16), lo |-> BitOr16(a.lo, b.lo, 16)]

WordAnd(a, b) == [hi |-> BitAnd16(a.hi, b.hi, 16), lo |-> BitAnd16(a.lo, b.lo, 16)]

\* BasicType.pack and unpack (btypes.py 14-18) of uint32, uint16 and uint8
\* on a stream of endianess "<" or ">": bytes, first byte first.
U32Bytes(w, endianess) ==
    IF endianess = "<"
    THEN <<w.lo % 256, w.lo \div 256, w.hi % 256, w.hi \div 256>>
    ELSE <<w.hi \div 256, w.hi % 256, w.lo \div 256, w.lo % 256>>

U16Bytes(v, endianess) ==
    IF endianess = "<" THEN <<v % 256, v \div 256>> ELSE <<v \div 256, v % 256>>

U8Bytes(v) == <<v>>

U32At(bytes, pos, endianess) ==
    IF endianess = "<"
    THEN [hi |-> bytes[pos + 3] + 256 * bytes[pos + 4],
          lo |-> bytes[pos + 1] + 256 * bytes[pos + 2]]
    ELSE [hi |-> bytes[pos + 2] + 256 * bytes[pos + 1],
          lo |-> bytes[pos + 4] + 256 * bytes[pos + 3]]

U16At(bytes, pos, endianess) ==
    IF endianess = "<"
    THEN bytes[pos + 1] + 256 * bytes[pos + 2]
    ELSE bytes[pos + 2] + 256 * bytes[pos + 1]

U8At(bytes, pos) == bytes[pos + 1]

\* The data types (lines 7-12).
UINT32 == 0
FLOAT32 == 2
SINT32 == 3
SINT16 == 4
SINT8 == 5
STRING_TYPE == 6

\* Field.data_size (lines 28-41); None where no branch is taken.
data_size(data_type) ==
    IF data_type = UINT32 THEN 4
    ELSE IF data_type = FLOAT32 THEN 4
    ELSE IF data_type = SINT32 THEN 4
    ELSE IF data_type = SINT16 THEN 2
    ELSE IF data_type = SINT8 THEN 1
    ELSE IF data_type = STRING_TYPE THEN 4
    ELSE -1

\* calculate_name_hash (lines 57-61) on the character codes of a name:
\* h = (h*31 + ord(c)) & 0xFFFFFFFF, kept in halves.
RECURSIVE NameHashFrom(_, _, _)
NameHashFrom(h, name, i) ==
    IF i > Len(name) THEN h
    ELSE LET low == h.lo * 31 + name[i]
         IN  NameHashFrom([hi |-> (h.hi * 31 + low \div 65536) % 65536,
                           lo |-> low % 65536], name, i + 1)

calculate_name_hash(name) == NameHashFrom(Word(0), name, 1)

\* Field.__init__ (lines 44-54) with a name given as a string.
BcsvField(data_type, name, offset, mask, shift) ==
    [name_hash |-> calculate_name_hash(name), mask |-> mask, offset |-> offset,
     shift |-> shift, data_type |-> data_type]

\* The names 'camera_id', 'Sound_code', 'Floor_code', 'Wall_code' and
\* 'Camera_through' as character codes.
Name_camera_id == <<99, 97, 109, 101, 114, 97, 95, 105, 100>>
Name_Sound_code == <<83, 111, 117, 110, 100, 95, 99, 111, 100, 101>>
Name_Floor_code == <<70, 108, 111, 111, 114, 95, 99, 111, 100, 101>>
Name_Wall_code == <<87, 97, 108, 108, 95, 99, 111, 100, 101>>
Name_Camera_through ==
    <<67, 97, 109, 101, 114, 97, 95, 116, 104, 114, 111, 117, 103, 104>>

\* SurfaceType (kcl.py 76-83) with its five values; camera_through is the
\* number Python takes a bool for (False 0, True 1).
SurfaceType(camera_id, sound_code, floor_code, wall_code, camera_through) ==
    [camera_id |-> camera_id, sound_code |-> sound_code, floor_code |-> floor_code,
     wall_code |-> wall_code, camera_through |-> camera_through]

\* SurfaceTypeList.bcsv_fields (kcl.py 86-91), masks 0x000000FF, 0x00007F00,
\* 0x001F8000, 0x01E00000 and 0x02000000 in halves.
SurfaceTypeFields ==
    <<BcsvField(UINT32, Name_camera_id, 0, [hi |-> 0, lo |-> 255], 0),
      BcsvField(UINT32, Name_Sound_code, 0, [hi |-> 0, lo |-> 32512], 8),
      BcsvField(UINT32, Name_Floor_code, 0, [hi |-> 31, lo |-> 32768], 15),
      BcsvField(UINT32, Name_Wall_code, 0, [hi |-> 480, lo |-> 0], 21),
      BcsvField(UINT32, Name_Camera_through, 0, [hi |-> 512, lo |-> 0], 25)>>

\* ObjectListDict.__setitem__ (lines 187-190): the attribute of each field.
AttributeNames ==
    <<"camera_id", "sound_code", "floor_code", "wall_code", "camera_through">>

uint8_size == 1

\* bcsv.Header: entry_count, field_count, entry_offset, entry_size.
BcsvHeaderFields == <<uint32_size, uint32_size, uint32_size, uint32_size>>

BcsvHeaderSize == StructSize(BcsvHeaderFields)

\* bcsv.Field: name_hash, mask, offset, shift, data_type.
BcsvFieldFields == <<uint32_size, uint32_size, uint16_size, uint8_size, uint8_size>>

BcsvFieldSize == StructSize(BcsvFieldFields)

\* Header.pack and Field.pack: Struct.pack (btypes.py 260-263) field by field.
BcsvHeaderBytes(header, endianess) ==
    U32Bytes(Word(header.entry_count), endianess)
    \o U32Bytes(Word(header.field_count), endianess)
    \o U32Bytes(Word(header.entry_offset), endianess)
    \o U32Bytes(Word(header.entry_size), endianess)

BcsvFieldBytes(field, endianess) ==
    U32Bytes(field.name_hash, endianess) \o U32Bytes(field.mask, endianess)
    \o U16Bytes(field.offset, endianess) \o U8Bytes(field.shift)
    \o U8Bytes(field.data_type)

\* Header.unpack and Field.unpack: Struct.unpack (btypes.py 265-270) at a
\* position of the stream.
BcsvHeaderAt(bytes, pos, endianess) ==
    [entry_count |-> WordValue(U32At(bytes, pos, endianess)),
     field_count |-> WordValue(U32At(bytes, pos + 4, endianess)),
     entry_offset |-> WordValue(U32At(bytes, pos + 8, endianess)),
     entry_size |-> WordValue(U32At(bytes, pos + 12, endianess))]

BcsvFieldAt(bytes, pos, endianess) ==
    [name_hash |-> U32At(bytes, pos, endianess),
     mask |-> U32At(bytes, pos + 4, endianess),
     offset |-> U16At(bytes, pos + 8, endianess),
     shift |-> U8At(bytes, pos + 10),
     data_type |-> U8At(bytes, pos + 11)]

\* align_length (btypes.py 172-173)
align_length(length, boundary) == ((length + boundary - 1) \div boundary) * boundary

\* align (btypes.py 166-169) with a padding of one byte: the bytes written at
\* stream position tell.
AlignBytes(tell, boundary, padding) ==
    IF tell % boundary = 0 THEN <<>>
    ELSE [k \in 1..(boundary - (tell % boundary)) |-> padding]

SeqMax(values) == CHOOSE m \in {values[i] : i \in DOMAIN values} :
                      \A i \in DOMAIN values : values[i] <= m

\* A write of data at a position inside a block.
BlockWrite(block, pos, data) ==
    [k \in DOMAIN block |->
        IF k > pos /\ k <= pos + Len(data) THEN data[k - pos] ELSE block[k]]

\* get_field_value and set_field_value of List (lines 174-180) and of
\* ObjectList (lines 228-234).
get_field_value(cls, entry, field_index) ==
    IF cls = "List" THEN entry[field_index] ELSE entry[AttributeNames[field_index]]

set_field_value(cls, entry, field_index, value) ==
    IF cls = "List" THEN [entry EXCEPT ![field_index] = value]
    ELSE [entry EXCEPT ![AttributeNames[field_index]] = value]

\* value << field.shift of line 97, of a value that stays below 2^31.
PackShift_None(value, shift) == Word(value)

PackShift(value, shift) == Word(value * 2 ^ shift)

\* Lines 92-114 for one entry: the entry block after the fields from
\* field_index on are written.  Only the UINT32 branch is computed; the
\* tables of this program have no field of another type.
RECURSIVE PackEntry(_, _, _, _, _, _)
PackEntry(cls, fields, entry, field_index, block, endianess) ==
    IF field_index > Len(fields) THEN block
    ELSE LET field == fields[field_index]
             value == WordOr(PackShift(get_field_value(cls, entry, field_index),
                                       field.shift),
                             U32At(block, field.offset, endianess))
         IN  PackEntry(cls, fields, entry, field_index + 1,
                 IF field.data_type = UINT32
                 THEN BlockWrite(block, field.offset, U32Bytes(value, endianess))
                 ELSE block,
                 endianess)

RECURSIVE PackEntries_Bcsv(_, _, _, _, _, _)
PackEntries_Bcsv(cls, fields, entries, k, entry_size, endianess) ==
    IF k > Len(entries) THEN <<>>
    ELSE PackEntry(cls, fields, entries[k], 1, [b \in 1..entry_size |-> 0], endianess)
         \o PackEntries_Bcsv(cls, fields, entries, k + 1, entry_size, endianess)

RECURSIVE FieldsBytes(_, _, _)
FieldsBytes(fields, i, endianess) ==
    IF i > Len(fields) THEN <<>>
    ELSE BcsvFieldBytes(fields[i], endianess) \o FieldsBytes(fields, i + 1, endianess)

\* ListBase.pack (lines 72-119) on an empty stream: the bytes written.  The
\* string pool is empty, no field being a string.
ListPack(cls, fields, entries, endianess) ==
    LET header == [entry_count |-> Len(entries),
                   field_count |-> Len(fields),
                   entry_offset |-> BcsvHeaderSize + Len(fields) * BcsvFieldSize,
                   entry_size |->
                       align_length(SeqMax([i \in DOMAIN fields |->
                           fields[i].offset + data_size(fields[i].data_type)]), 4)]
        body == BcsvHeaderBytes(header, endianess)
                \o FieldsBytes(fields, 1, endianess)
                \o PackEntries_Bcsv(cls, fields, entries, 1, header.entry_size, endianess)
    IN  Bind(body, LAMBDA b : b \o AlignBytes(Len(b), 32, 64))

\* The names bound in the module bcsv: those of "from btypes import *" and
\* the module's own definitions.
BcsvGlobals ==
    {"Array", "BIG_ENDIAN", "BasicType", "ByteString", "BytesStream", "CString",
     "FLOAT32", "Field", "FileStream", "FixedPointConverter", "Header",
     "LITTLE_ENDIAN", "List", "ListBase", "NATIVE_ENDIAN", "ObjectList",
     "ObjectListDict", "ObjectListMeta", "PString", "Padding", "Pointer",
     "SINT16", "SINT32", "SINT8", "STRING", "StreamBase", "Struct", "StructDict",
     "StructMeta", "UINT32", "align", "align_length", "bool8",
     "calculate_name_hash", "create_name_table", "cstring", "cstring_sjis",
     "float32", "float64", "io", "pstring", "sint16", "sint32", "sint64", "sint8",
     "uint16", "uint32", "uint64", "uint8"}

\* "raise name(...)" in bcsv.py: the exception that leaves the statement.  A
\* name that is not bound raises NameError when it is looked up.
Raise(name) == IF name \in BcsvGlobals THEN name ELSE "NameError"

\* (uint32.unpack(entry_block) & field.mask) >> field.shift of line 139.
UnpackField(word, field) == WordValue(WordAnd(word, field.mask)) \div (2 ^ field.shift)

ValidTypes == {UINT32, FLOAT32, SINT32, SINT16, SINT8, STRING_TYPE}

\* Lines 135-154 for one entry: the exception raised, or the entry with the
\* fields from field_index on set.  A value of another valid type is kept as
\* its type and its bytes.
RECURSIVE UnpackEntry(_, _, _, _, _, _, _)
UnpackEntry(cls, fields, entry, field_index, bytes, block, endianess) ==
    IF field_index > Len(fields) THEN [raised |-> "none", entry |-> entry]
    ELSE LET field == fields[field_index]
         IN  IF field.data_type = UINT32
             THEN UnpackEntry(cls, fields,
                      set_field_value(cls, entry, field_index,
                          UnpackField(U32At(bytes, block + field.offset, endianess),
                                      field)),
                      field_index + 1, bytes, block, endianess)
             ELSE IF field.data_type \in ValidTypes
             THEN UnpackEntry(cls, fields,
                      set_field_value(cls, entry, field_index,
                          [data_type |-> field.data_type,
                           bytes |-> SubSeq(bytes, block + field.offset + 1,
                                        block + field.offset
                                        + data_size(field.data_type))]),
                      field_index + 1, bytes, block, endianess)
             ELSE [raised |-> Raise("FormatError"), entry |-> entry]

\* The loop of lines 132-154 from entry k on.
RECURSIVE UnpackEntries(_, _, _, _, _, _)
UnpackEntries(cls, fields, header, k, bytes, endianess) ==
    IF k > header.entry_count THEN [raised |-> "none", entries |-> <<>>]
    ELSE LET blank == IF cls = "List" THEN [i \in DOMAIN fields |-> "None"]
                      ELSE [a \in {AttributeNames[i] : i \in DOMAIN AttributeNames}
                               |-> "unset"]
             first == UnpackEntry(cls, fields, blank, 1, bytes,
                          header.entry_offset + (k - 1) * header.entry_size, endianess)
         IN  IF first.raised # "none" THEN [raised |-> first.raised, entries |-> <<>>]
             ELSE LET rest == UnpackEntries(cls, fields, header, k + 1, bytes, endianess)
                  IN  IF rest.raised # "none" THEN rest
                      ELSE [raised |-> "none",
                            entries |-> <<first.entry>> \o rest.entries]

\* ListBase.unpack (lines 121-156) with create_list of List (lines 166-168)
\* and of ObjectList (lines 218-222), on the stream from its start.
ListUnpack(cls, class_fields, bytes, endianess) ==
    LET header == BcsvHeaderAt(bytes, 0, endianess)
        fields == [i \in 1..header.field_count |->
                      BcsvFieldAt(bytes, BcsvHeaderSize + (i - 1) * BcsvFieldSize,
                                  endianess)]
    IN  IF cls # "List" /\ fields # class_fields
        THEN [raised |-> Raise("FormatError"), fields |-> fields, entries |-> <<>>]
        ELSE Bind(UnpackEntries(cls, fields, header, 1, bytes, endianess),
                  LAMBDA r : [raised |-> r.raised, fields |-> fields,
                              entries |-> r.entries])

-----------------------------------------------------------------------------
(* A welder driven by arbitrary add calls                                  *)

MaxAdds == 3
MaxBuckets == 3

\* Thresholds, in tenths: 0.5 and 0.3.
WThresholds == {5, 3}

\* Arguments of add, in tenths; they straddle the cell boundaries at
\* 16*threshold (48, 80), on both sides of zero.
WPoints ==
    {Vector(0, 0, 0), Vector(4, 0, 0), Vector(-4, 0, 0), Vector(0, 4, 0),
     Vector(0, 0, -2), Vector(46, 0, 0), Vector(48, 0, 0), Vector(49, 0, 0),
     Vector(76, 0, 0), Vector(79, 0, 0), Vector(82, 0, 0),
     Vector(-82, 0, 0), Vector(-79, 4, -2)}

NoCall == [args |-> <<>>, index |-> 0, before |-> <<>>]

NoOctree == [built |-> FALSE]

NoPack == [pc |-> "idle"]
NoBcsv == [pc |-> "idle"]
NoObj == [pc |-> "idle"]
NoEditor == [pc |-> "idle"]

WelderInit ==
    /\ \E t \in WThresholds, b \in 1..MaxBuckets : welder = NewWelder(t, b)
    /\ wlast = NoCall
    /\ octree = NoOctree
    /\ opc = "idle"
    /\ pk = NoPack
    /\ bcsv = NoBcsv
    /\ obj = NoObj
    /\ editor = NoEditor

\* One call of VertexWelder.add.  wlast records the arguments of all calls so
\* far, the index the last one returned and the kept vertices before it.
WelderAdd ==
    /\ Len(wlast.args) < MaxAdds
    /\ \E v \in WPoints :
         LET r == add(welder, v)
         IN  /\ welder' = r.welder
             /\ wlast' = [args |-> Append(wlast.args, v),
                          index |-> r.index,
                          before |-> welder.vertices]
    /\ UNCHANGED <<octree, opc, pk, bcsv, obj, editor>>

WelderNext == WelderAdd

WelderSpec == WelderInit /\ [][WelderNext]_vars

-----------------------------------------------------------------------------
(* Octree.__init__ as a process: construction, then the flattening loop    *)

MaxTris == 3
MaxLeafCap == 2

\* min_width 1, 2 and 3 (quarter units).
MinWidths == {4, 8, 12}

\* Triangles (quarter units): a slanted one through seven octants of the cube
\* [0,16]^3, a small one inside the eighth, a small flat one at the origin, a
\* long flat one, and one with negative coordinates.
OctreePalette ==
    {Triangle(Vector(16, 4, 0), Vector(0, 16, 4), Vector(4, 0, 16), 0),
     Triangle(Vector(13, 13, 13), Vector(15, 13, 13), Vector(13, 15, 13), 0),
     Triangle(Vector(0, 0, 0), Vector(4, 0, 0), Vector(0, 4, 0), 1),
     Triangle(Vector(0, 0, 0), Vector(30, 0, 0), Vector(0, 7, 0), 0),
     Triangle(Vector(-8, -8, -8), Vector(8, -8, 0), Vector(0, 8, 8), 1)}

TriangleLists(palette, max_len) == UNION {[1..n -> palette] : n \in 1..max_len}

OctreeInit ==
    /\ \E ts \in TriangleLists(OctreePalette, MaxTris),
          mt \in 0..MaxLeafCap, mw \in MinWidths :
         octree = [built |-> FALSE, triangles |-> ts,
                   max_triangles |-> mt, min_width |-> mw]
    /\ opc = "call"
    /\ welder = NewWelder(1, 1)
    /\ wlast = NoCall
    /\ pk = NoPack
    /\ bcsv = NoBcsv
    /\ obj = NoObj
    /\ editor = NoEditor

\* Lines 243-269.
OctreeConstruct ==
    /\ opc = "call"
    /\ octree' = OctreeNew(octree.triangles, octree.max_triangles, octree.min_width)
    /\ opc' = "loop"
    /\ UNCHANGED <<welder, wlast, pk, bcsv, obj, editor>>

\* Lines 273-279: one round of the loop.
OctreeFlatten ==
    /\ opc = "loop"
    /\ BranchRatioHigh(octree)
    /\ octree' = Flatten(octree)
    /\ opc' = "loop"
    /\ UNCHANGED <<welder, wlast, pk, bcsv, obj, editor>>

\* Line 273: the loop condition fails and __init__ returns.
OctreeReturn ==
    /\ opc = "loop"
    /\ ~BranchRatioHigh(octree)
    /\ opc' = "done"
    /\ UNCHANGED <<octree, welder, wlast, pk, bcsv, obj, editor>>

\* Octree.pack (lines 301-344) of the octree __init__ returned.
OctreePack ==
    /\ opc = "done"
    /\ \E packed \in {OctreePacked(octree)} :
           octree' = octree @@ [packed |-> packed]
    /\ opc' = "packed"
    /\ UNCHANGED <<welder, wlast, pk, bcsv, obj, editor>>

OctreeNext == OctreeConstruct \/ OctreeFlatten \/ OctreeReturn \/ OctreePack

OctreeSpec == OctreeInit /\ [][OctreeNext]_vars

\* The flattening loop alone, entered at line 273 with the octree that lines
\* 243-269 construct.
OctreeLoopInit ==
    /\ \E ts \in TriangleLists(OctreePalette, MaxTris),
          mt \in 0..MaxLeafCap, mw \in MinWidths :
         octree = OctreeNew(ts, mt, mw)
    /\ opc = "loop"
    /\ welder = NewWelder(1, 1)
    /\ wlast = NoCall
    /\ pk = NoPack
    /\ bcsv = NoBcsv
    /\ obj = NoObj
    /\ editor = NoEditor

OctreeLoopNext == OctreeFlatten \/ OctreeReturn

\* __init__ is straight-line synchronous code: the loop keeps running until
\* its condition fails.
OctreeLoopFairSpec ==
    OctreeLoopInit /\ [][OctreeLoopNext]_vars /\ WF_vars(OctreeLoopNext)

-----------------------------------------------------------------------------
(* kcl.pack as a process                                                   *)

MaxPackTris == 2

\* Triangles (quarter units): (0,0,0),(1,0,0),(0,1,0); one whose first corner
\* is a quarter unit from that of the first; the first one shifted by (2,2,2);
\* and the first one with its corners rotated.
PackPalette ==
    {Triangle(Vector(0, 0, 0), Vector(4, 0, 0), Vector(0, 4, 0), 0),
     Triangle(Vector(1, 0, 0), Vector(4, 0, 4), Vector(0, 4, 4), 1),
     Triangle(Vector(8, 8, 8), Vector(12, 8, 8), Vector(8, 12, 8), 0),
     Triangle(Vector(4, 0, 0), Vector(0, 4, 0), Vector(0, 0, 0), 1)}

PackT1 == Triangle(Vector(0, 0, 0), Vector(4, 0, 0), Vector(0, 4, 0), 0)
PackT3 == Triangle(Vector(8, 8, 8), Vector(12, 8, 8), Vector(8, 12, 8), 0)

\* A slanted triangle through seven octants of the cube [0,16]^3.
PackT5 == Triangle(Vector(16, 4, 0), Vector(0, 16, 4), Vector(4, 0, 16), 2)

\* Short lists of every shape, long ones around the face limit, and two whose
\* octree the flattening loop reshapes.
PackLists_Short ==
    {[i \in 1..Len(f) |-> [tri |-> f[i], count |-> 1]] :
        f \in UNION {[1..m -> PackPalette] : m \in 0..MaxPackTris}}

PackInputs ==
    PackLists_Short
    \cup {<<[tri |-> PackT1, count |-> n]>> : n \in {65533, 65534, 65535}}
    \cup {<<[tri |-> PackT1, count |-> 65532], [tri |-> PackT3, count |-> 1]>>}
    \cup {<<[tri |-> PackT5, count |-> 1]>>,
          <<[tri |-> PackT1, count |-> 1], [tri |-> PackT5, count |-> 1]>>}

EmptyStream == [pos |-> 0, size |-> 0, writes |-> <<>>]

PackInit ==
    /\ \E runs \in PackInputs, mt \in {0, 1, 25}, mw \in {4, 8} :
         pk = [pc |-> "call", triangles |-> runs, max_triangles |-> mt,
               min_width |-> mw, stream |-> EmptyStream, error |-> "",
               faces |-> <<>>, vertex_welder |-> NewWelder(VertexThreshold, 0),
               normal_welder |-> NewWelder(NormalThreshold, 0),
               header |-> [unknown0 |-> 0], octree |-> NoOctree]
    /\ welder = NewWelder(1, 1)
    /\ wlast = NoCall
    /\ octree = NoOctree
    /\ opc = "idle"
    /\ bcsv = NoBcsv
    /\ obj = NoObj
    /\ editor = NoEditor

\* Lines 381-382.
PackGate ==
    /\ pk.pc = "call"
    /\ IF TooManyFaces(NumTriangles(pk.triangles))
       THEN pk' = [pk EXCEPT !.pc = "raised", !.error = "too many faces"]
       ELSE pk' = [pk EXCEPT !.pc = "weld"]
    /\ UNCHANGED <<welder, wlast, octree, opc, bcsv, obj, editor>>

\* Lines 384-398.
PackWeld ==
    /\ pk.pc = "weld"
    /\ \E n \in {NumTriangles(pk.triangles)} :
       \E ws \in {[vertex_welder |-> NewWelder(VertexThreshold, CeilDiv(n, 64)),
                   normal_welder |-> NewWelder(NormalThreshold, CeilDiv(4 * n, 64))]} :
       \E r \in {WeldRuns(ws, pk.triangles, 1, <<>>)} :
           pk' = [pk EXCEPT !.pc = "check", !.faces = r.faces,
                            !.vertex_welder = r.ws.vertex_welder,
                            !.normal_welder = r.ws.normal_welder]
    /\ UNCHANGED <<welder, wlast, octree, opc, bcsv, obj, editor>>

\* Lines 400-404.
PackCheck ==
    /\ pk.pc = "check"
    /\ IF Len(pk.vertex_welder.vertices) >= U16Max
       THEN pk' = [pk EXCEPT !.pc = "raised", !.error = "too many vertices"]
       ELSE IF Len(pk.normal_welder.vertices) >= U16Max
       THEN pk' = [pk EXCEPT !.pc = "raised", !.error = "too many normals"]
       ELSE pk' = [pk EXCEPT !.pc = "write"]
    /\ UNCHANGED <<welder, wlast, octree, opc, bcsv, obj, editor>>

\* Lines 406-421.
PackWrite ==
    /\ pk.pc = "write"
    /\ LET s0 == StreamWrite(pk.stream, "zeros", HeaderSize)
           s1 == StreamWrite(s0, "vertices",
                             VectorSize * Len(pk.vertex_welder.vertices))
           s2 == StreamWrite(s1, "normals",
                             VectorSize * Len(pk.normal_welder.vertices))
           s3 == StreamWrite(s2, "faces", FaceSize * NumTriangles(pk.triangles))
       IN  pk' = [pk EXCEPT !.pc = "octree", !.stream = s3,
                            !.header = [unknown0 |-> 40,
                                        vertex_offset |-> s0.pos,
                                        normal_offset |-> s1.pos,
                                        face_offset |-> FaceOffset(s2.pos),
                                        octree_offset |-> s3.pos]]
    /\ UNCHANGED <<welder, wlast, octree, opc, bcsv, obj, editor>>

\* Lines 422-434.  Octree.__init__ takes min() of an empty sequence when
\* there is no triangle, which raises ValueError.  The header's base is in
\* quarter units and coordinate_shift is taken of the width in units.
PackOctree ==
    /\ pk.pc = "octree"
    /\ IF pk.triangles = <<>>
       THEN pk' = [pk EXCEPT !.pc = "raised", !.error = "ValueError"]
       ELSE \E ts \in {Expand(pk.triangles, 1)} :
            \E o \in {Octree(ts, pk.max_triangles, pk.min_width)} :
            \E packed \in {OctreePacked(o)} :
            LET s4 == StreamWrite(pk.stream, "tables", packed.list_base)
                s5 == StreamWrite(s4, "lists", packed.list_bytes)
                s6 == StreamWrite(StreamSeek(s5, 0), "header", HeaderSize)
                y_shift == Log2(o.nx)
            IN  pk' = [pk EXCEPT
                        !.pc = "done",
                        !.stream = s6,
                        !.octree = [base |-> o.base, base_width |-> o.base_width,
                                    width_x |-> o.width_x, width_y |-> o.width_y,
                                    width_z |-> o.width_z,
                                    nx |-> o.nx, ny |-> o.ny, nz |-> o.nz,
                                    children |-> o.children,
                                    packed |-> packed],
                        !.header = [unknown0 |-> 40,
                                    vertex_offset |-> pk.header.vertex_offset,
                                    normal_offset |-> pk.header.normal_offset,
                                    face_offset |-> pk.header.face_offset,
                                    octree_offset |-> pk.header.octree_offset,
                                    base |-> o.base,
                                    x_mask |-> Mask32(o.width_x \div 4),
                                    y_mask |-> Mask32(o.width_y \div 4),
                                    z_mask |-> Mask32(o.width_z \div 4),
                                    coordinate_shift |-> Log2(o.base_width \div 4),
                                    y_shift |-> y_shift,
                                    z_shift |-> y_shift + Log2(o.ny)]]
    /\ UNCHANGED <<welder, wlast, octree, opc, bcsv, obj, editor>>

PackNext == PackGate \/ PackWeld \/ PackCheck \/ PackWrite \/ PackOctree

PackSpec == PackInit /\ [][PackNext]_vars

\* Single triangles of every orientation: corners among those of a cube and
\* two points off it, no three on a line.
FacePoints ==
    {Vector(x, y, z) : x \in {0, 4}, y \in {0, 4}, z \in {0, 4}}
    \cup {Vector(8, 4, 0), Vector(1, 2, 12)}

FaceTriangles ==
    {t \in {Triangle(u, v, w, 0) : u \in FacePoints, v \in FacePoints, w \in FacePoints} :
        norm_square(t.n) > 0}

\* kcl.pack of one triangle with the editor's default parameters.
FaceInit ==
    /\ \E triangle \in FaceTriangles :
         pk = [pc |-> "call", triangles |-> <<[tri |-> triangle, count |-> 1]>>,
               max_triangles |-> 25, min_width |-> 8, stream |-> EmptyStream,
               error |-> "", faces |-> <<>>,
               vertex_welder |-> NewWelder(VertexThreshold, 0),
               normal_welder |-> NewWelder(NormalThreshold, 0),
               header |-> [unknown0 |-> 0], octree |-> NoOctree]
    /\ welder = NewWelder(1, 1)
    /\ wlast = NoCall
    /\ octree = NoOctree
    /\ opc = "idle"
    /\ bcsv = NoBcsv
    /\ obj = NoObj
    /\ editor = NoEditor

FaceSpec == FaceInit /\ [][PackNext]_vars

-----------------------------------------------------------------------------
(* WavefrontOBJ.unpack (kcl.py 440-476) and the editor's load              *)
(* (collision_creator.py 150-153)                                           *)

\* Coordinates of the OBJ file are held in units of 1/32.
ObjScale == 32

\* cross(v - u,w - u).norm_square() < 0.001 of line 473: with the cross
\* product in units of 1/32^2 its square is below 0.001 exactly when its
\* whole number of units of 1/32^4 is below ceil(32^4 / 1000).
Degenerate(u, v, w) ==
    norm_square(cross(VSub(v, u), VSub(w, u))) < CeilDiv(ObjScale ^ 4, 1000)

\* vertices[k] of Python for an integer k: counted from the end when k is
\* negative, IndexError outside the list.
InRange(list, k) == k >= -Len(list) /\ k < Len(list)

PyIndex(list, k) == IF k >= 0 THEN list[k + 1] ELSE list[Len(list) + k + 1]

\* group_name not in group_table of line 462, never and as written.
KnownGroup_Never(group_table, group_name) == FALSE

KnownGroup(group_table, group_name) == group_name \in DOMAIN group_table

\* A line after line.split(): its command and its arguments.  The argument
\* of a face stands for int(args[i].split('/')[0]).
Line(command, args) == [command |-> command, args |-> args]

\* Lines 446-453: the state before the first line.
ObjStart(stream) ==
    [pc |-> "read", stream |-> stream, read |-> 0,
     vertices |-> <<>>, triangles |-> <<>>,
     group_names |-> <<"default group">>,
     group_table |-> [n \in {"default group"} |-> 0],
     group_index |-> 0, error |-> "", surface_types |-> <<>>,
     material |-> "default group", faces |-> <<>>]

\* Lines 455-474: one pass of the loop on a line.  The fields material and
\* faces record what was read: the name the last usemtl gave, and the corners
\* and that name of every face line that raised nothing.
ObjStep(o, line) ==
    IF line.command = "" THEN o
    ELSE IF line.command = "usemtl" THEN
        LET group_name == IF line.args # <<>> THEN line.args[1] ELSE "default group"
            known == KnownGroup(o.group_table, group_name)
            group_table == IF known THEN o.group_table
                           ELSE (group_name :> Cardinality(DOMAIN o.group_table))
                                @@ o.group_table
        IN  [o EXCEPT !.group_table = group_table,
                      !.group_names = IF known THEN @ ELSE Append(@, group_name),
                      !.group_index = group_table[group_name],
                      !.material = group_name]
    ELSE IF line.command = "v" THEN
        IF Len(line.args) < 3 THEN [o EXCEPT !.pc = "raised", !.error = "IndexError"]
        ELSE [o EXCEPT !.vertices =
                           Append(@, Vector(line.args[1], line.args[2], line.args[3]))]
    ELSE IF line.command = "f" THEN
        IF \/ Len(line.args) < 3
           \/ \E i \in 1..3 : ~InRange(o.vertices, line.args[i] - 1)
        THEN [o EXCEPT !.pc = "raised", !.error = "IndexError"]
        ELSE LET u == PyIndex(o.vertices, line.args[1] - 1)
                 v == PyIndex(o.vertices, line.args[2] - 1)
                 w == PyIndex(o.vertices, line.args[3] - 1)
                 seen == Append(o.faces, [u |-> u, v |-> v, w |-> w,
                                          material |-> o.material])
             IN  IF Degenerate(u, v, w) THEN [o EXCEPT !.faces = seen]
                 ELSE [o EXCEPT !.faces = seen,
                                !.triangles = Append(@, Triangle(u, v, w, o.group_index))]
    ELSE o

MaxLines == 4

\* The vertex lines a file begins with: none, or six corners of which the
\* fourth lies on the line of the first two (w = u + 2(v - u)), the fifth
\* makes a sliver with them (cross product squared 0.00098) and the sixth a
\* thin triangle above the threshold (0.0039).
ObjVertexLines ==
    <<Line("v", <<0, 0, 0>>), Line("v", <<32, 0, 0>>), Line("v", <<0, 32, 0>>),
      Line("v", <<64, 0, 0>>), Line("v", <<0, 1, 0>>), Line("v", <<0, 0, 2>>)>>

\* The lines that may follow.
ObjLines ==
    {Line("usemtl", <<"a">>), Line("usemtl", <<"b">>), Line("usemtl", <<>>),
     Line("f", <<1, 2, 3>>), Line("f", <<1, 2, 4>>), Line("f", <<1, 2, 5>>),
     Line("f", <<6, 2, 1>>), Line("f", <<0, 1, 3>>), Line("f", <<1, 2, 7>>),
     Line("", <<>>), Line("vn", <<0, 0, 32>>), Line("v", <<32, 32, 0>>)}

ObjInit ==
    /\ \E stream \in {<<>>, ObjVertexLines} : obj = ObjStart(stream)
    /\ welder = NewWelder(1, 1)
    /\ wlast = NoCall
    /\ octree = NoOctree
    /\ opc = "idle"
    /\ pk = NoPack
    /\ bcsv = NoBcsv
    /\ editor = NoEditor

\* One pass of the loop: the next line is that of the file's beginning, or
\* any line after it.
ObjLine ==
    /\ obj.pc = "read"
    /\ \/ /\ obj.stream # <<>>
          /\ obj' = ObjStep([obj EXCEPT !.stream = Tail(@)], Head(obj.stream))
       \/ /\ obj.stream = <<>>
          /\ obj.read < MaxLines
          /\ \E line \in ObjLines : obj' = ObjStep([obj EXCEPT !.read = @ + 1], line)
    /\ UNCHANGED <<welder, wlast, octree, opc, pk, bcsv, editor>>

\* Line 476: the stream has ended.
ObjReturn ==
    /\ obj.pc = "read"
    /\ obj.stream = <<>>
    /\ obj' = [obj EXCEPT !.pc = "returned"]
    /\ UNCHANGED <<welder, wlast, octree, opc, pk, bcsv, editor>>

\* collision_creator.py 153 and GroupWidget.setGroups: one new SurfaceType
\* for every group name.
ObjSetGroups ==
    /\ obj.pc = "returned"
    /\ obj' = [obj EXCEPT !.pc = "loaded",
                          !.surface_types = [k \in DOMAIN obj.group_names |->
                                                SurfaceType(255, 0, 0, 0, 0)]]
    /\ UNCHANGED <<welder, wlast, octree, opc, pk, bcsv, editor>>

ObjNext == ObjLine \/ ObjReturn \/ ObjSetGroups

ObjSpec == ObjInit /\ [][ObjNext]_vars

-----------------------------------------------------------------------------
(* A surface type table packed, unpacked and packed again, and a table     *)
(* from elsewhere unpacked                                                  *)

MaxEntries == 2

\* Values at both ends of each mask and in between.
SurfaceTypes ==
    {SurfaceType(c, s, f, w, t) :
        c \in {0, 18, 255}, s \in {0, 5, 127}, f \in {0, 10, 63},
        w \in {0, 3, 15}, t \in {0, 1}}

SurfacePalette ==
    {SurfaceType(255, 0, 0, 0, 0), SurfaceType(18, 5, 10, 3, 1),
     SurfaceType(255, 127, 63, 15, 1)}

RECURSIVE ListsUpTo(_, _)
ListsUpTo(S, n) ==
    IF n = 0 THEN {<<>>}
    ELSE LET shorter == ListsUpTo(S, n - 1)
         IN  shorter \cup {Append(l, x) : l \in shorter, x \in S}

SurfaceTables ==
    {<<e>> : e \in SurfaceTypes} \cup ListsUpTo(SurfacePalette, MaxEntries)

\* The same entries as the rows of a plain List.
AsRow(e) == <<e.camera_id, e.sound_code, e.floor_code, e.wall_code, e.camera_through>>

RowTables == {[k \in DOMAIN l |-> AsRow(l[k])] : l \in ListsUpTo(SurfacePalette, MaxEntries)}

\* Type bytes that are none of the six data types.
InvalidTypes == {1, 7, 255}

\* The file of a table whose field carries another type byte.
WithDataType(bytes, field_index, data_type) ==
    [bytes EXCEPT ![BcsvHeaderSize + (field_index - 1) * BcsvFieldSize + 12] = data_type]

ForeignFiles(endianess) ==
    {WithDataType(ListPack("SurfaceTypeList", SurfaceTypeFields, l, endianess), i, t) :
        l \in ListsUpTo(SurfacePalette, MaxEntries),
        i \in DOMAIN SurfaceTypeFields, t \in InvalidTypes}

NoResult == [raised |-> "none", fields |-> <<>>, entries |-> <<>>]

BcsvInit ==
    /\ \E cls \in {"List", "SurfaceTypeList"}, endianess \in {"<", ">"} :
         \/ \E entries \in (IF cls = "List" THEN RowTables ELSE SurfaceTables) :
              bcsv = [pc |-> "call", cls |-> cls, endianess |-> endianess,
                      entries |-> entries, stream |-> <<>>, foreign |-> FALSE,
                      result |-> NoResult, second |-> <<>>]
         \/ \E file \in ForeignFiles(endianess) :
              bcsv = [pc |-> "packed", cls |-> cls, endianess |-> endianess,
                      entries |-> <<>>, stream |-> file, foreign |-> TRUE,
                      result |-> NoResult, second |-> <<>>]
    /\ welder = NewWelder(1, 1)
    /\ wlast = NoCall
    /\ octree = NoOctree
    /\ opc = "idle"
    /\ pk = NoPack
    /\ obj = NoObj
    /\ editor = NoEditor

\* cls.pack(stream, entries) on a new stream (collision_creator.py 101-102
\* for the surface types).
BcsvPack ==
    /\ bcsv.pc = "call"
    /\ \E bytes \in {ListPack(bcsv.cls, SurfaceTypeFields, bcsv.entries, bcsv.endianess)} :
         bcsv' = [bcsv EXCEPT !.pc = "packed", !.stream = bytes]
    /\ UNCHANGED <<welder, wlast, octree, opc, pk, obj, editor>>

\* cls.unpack(stream) on the stream from its start.
BcsvUnpack ==
    /\ bcsv.pc = "packed"
    /\ \E r \in {ListUnpack(bcsv.cls, SurfaceTypeFields, bcsv.stream, bcsv.endianess)} :
         bcsv' = [bcsv EXCEPT !.pc = IF r.raised = "none" THEN "unpacked" ELSE "raised",
                              !.result = r]
    /\ UNCHANGED <<welder, wlast, octree, opc, pk, obj, editor>>

\* cls.pack(stream, entries) of the unpacked entries on a second new stream.
BcsvRepack ==
    /\ bcsv.pc = "unpacked"
    /\ ~bcsv.foreign
    /\ \E bytes \in {ListPack(bcsv.cls,
                         IF bcsv.cls = "List" THEN bcsv.result.fields
                         ELSE SurfaceTypeFields,
                         bcsv.result.entries, bcsv.endianess)} :
         bcsv' = [bcsv EXCEPT !.pc = "repacked", !.second = bytes]
    /\ UNCHANGED <<welder, wlast, octree, opc, pk, obj, editor>>

BcsvNext == BcsvPack \/ BcsvUnpack \/ BcsvRepack

BcsvSpec == BcsvInit /\ [][BcsvNext]_vars

-----------------------------------------------------------------------------
(* The editor (collision_creator.py): the group widget, save, and the      *)
(* builder thread                                                           *)

MaxGroups == 2

\* GroupWidget.__init__ (lines 38-73): what the five widgets show at first,
\* the spin box its minimum, the combo boxes their first item, the check box
\* unchecked.
NewWidgets == SurfaceType(0, 0, 0, 0, 0)

\* Group rows and current_type are counted from 1; 0 stands for no row and
\* for None.
NewEditor ==
    [pc |-> "new", triangles |-> <<>>, surface_types |-> <<>>, current_type |-> 0,
     current_row |-> 0, widgets |-> NewWidgets, shown |-> <<>>,
     thread |-> [pc |-> "none"]]

\* The meshes loaded: none, one triangle, and one face over the limit.
EditorMeshes ==
    {<<>>, <<[tri |-> PackT1, count |-> 1]>>, <<[tri |-> PackT1, count |-> 65534]>>}

\* What the user sets the spin box and the check box to.
EditorEdits ==
    {[field |-> "camera_id", value |-> 18], [field |-> "camera_id", value |-> 255],
     [field |-> "camera_through", value |-> 0], [field |-> "camera_through", value |-> 1]}

\* GroupWidget.setGroups (lines 75-79).
setGroups(e, surface_types) ==
    [e EXCEPT !.surface_types = surface_types, !.current_type = 0]

\* Lines 82-87: the widgets' values are copied to current_type unless it is
\* None.
Flush(e) ==
    IF e.current_type # 0
    THEN [e.surface_types EXCEPT ![e.current_type] = e.widgets]
    ELSE e.surface_types

\* GroupWidget.onCurrentGroupChanged (lines 81-94).
onCurrentGroupChanged(e, group) ==
    LET surface_types == Flush(e)
    IN  [e EXCEPT !.surface_types = surface_types,
                  !.current_type = group,
                  !.widgets = surface_types[group]]

\* The except clause of BuilderThread.run (line 116), catching nothing and
\* as written.
Handles_Nothing(error) == FALSE

Handles(error) == error \in {"too many faces", "too many vertices", "too many normals"}

EditorInit ==
    /\ editor = NewEditor
    /\ welder = NewWelder(1, 1)
    /\ wlast = NoCall
    /\ octree = NoOctree
    /\ opc = "idle"
    /\ pk = NoPack
    /\ bcsv = NoBcsv
    /\ obj = NoObj

\* CollisionWidget.load (lines 150-153) of a file with some groups and
\* triangles.  The field shown records what the widgets last showed of each
\* group: the values of its new SurfaceType as long as it was never selected.
EditorLoad ==
    /\ editor.pc = "new"
    /\ \E groups \in 1..MaxGroups, triangles \in EditorMeshes :
         LET surface_types == [k \in 1..groups |-> SurfaceType(255, 0, 0, 0, 0)]
         IN  editor' = [setGroups(editor, surface_types) EXCEPT
                            !.pc = "loaded", !.triangles = triangles,
                            !.shown = surface_types]
    /\ UNCHANGED <<welder, wlast, octree, opc, pk, bcsv, obj>>

\* The user selects another row of the group list: currentRowChanged calls
\* onCurrentGroupChanged.
EditorSelect ==
    /\ editor.pc = "loaded"
    /\ \E group \in DOMAIN editor.surface_types :
         /\ group # editor.current_row
         /\ \E e \in {onCurrentGroupChanged(editor, group)} :
              editor' = [e EXCEPT !.current_row = group,
                                  !.shown = [@ EXCEPT ![group] = e.widgets]]
    /\ UNCHANGED <<welder, wlast, octree, opc, pk, bcsv, obj>>

\* The user changes a widget; no slot is connected to it.
EditorEdit ==
    /\ editor.pc = "loaded"
    /\ \E edit \in EditorEdits :
         \E widgets \in {[editor.widgets EXCEPT ![edit.field] = edit.value]} :
            editor' = [editor EXCEPT
                          !.widgets = widgets,
                          !.shown = IF editor.current_row # 0
                                    THEN [@ EXCEPT ![editor.current_row] = widgets]
                                    ELSE @]
    /\ UNCHANGED <<welder, wlast, octree, opc, pk, bcsv, obj>>

\* CollisionWidget.save (lines 155-168): the thread is made of the list
\* surface_types and started; the modal dialog takes the input until it has
\* finished.  min_width is the spin box's 8, in quarter units.
EditorSave ==
    /\ editor.pc = "loaded"
    /\ editor' = [editor EXCEPT
                     !.pc = "saving",
                     !.thread = [pc |-> "started", triangles |-> editor.triangles,
                                 max_triangles |-> 25, min_width |-> 32,
                                 kcl_opened |-> FALSE, pa_opened |-> FALSE,
                                 handed |-> <<>>, pa |-> <<>>, emitted |-> 0]]
    /\ UNCHANGED <<welder, wlast, octree, opc, pk, bcsv, obj>>

\* BuilderThread.run, lines 111-113: the KCL file is opened and kcl.pack
\* called.
BuilderRun ==
    /\ editor.thread.pc = "started"
    /\ editor' = [editor EXCEPT !.thread.pc = "packing", !.thread.kcl_opened = TRUE]
    /\ pk' = [pc |-> "call", triangles |-> editor.thread.triangles,
              max_triangles |-> editor.thread.max_triangles,
              min_width |-> editor.thread.min_width, stream |-> EmptyStream,
              error |-> "", faces |-> <<>>,
              vertex_welder |-> NewWelder(VertexThreshold, 0),
              normal_welder |-> NewWelder(NormalThreshold, 0),
              header |-> [unknown0 |-> 0], octree |-> NoOctree]
    /\ UNCHANGED <<welder, wlast, octree, opc, bcsv, obj>>

\* Lines 114-115: kcl.pack has returned; the .pa file is opened and the
\* list the thread was made of is packed.
BuilderPa ==
    /\ editor.thread.pc = "packing"
    /\ pk.pc = "done"
    /\ \E bytes \in {ListPack("SurfaceTypeList", SurfaceTypeFields,
                              editor.surface_types, "<")} :
         editor' = [editor EXCEPT !.thread.pc = "finished", !.pc = "saved",
                                  !.thread.pa_opened = TRUE,
                                  !.thread.handed = editor.surface_types,
                                  !.thread.pa = bytes]
    /\ UNCHANGED <<welder, wlast, octree, opc, pk, bcsv, obj>>

\* Lines 116-117: kcl.pack has raised; a GeometryOverflowError is emitted,
\* anything else leaves run.
BuilderExcept ==
    /\ editor.thread.pc = "packing"
    /\ pk.pc = "raised"
    /\ IF Handles(pk.error)
       THEN editor' = [editor EXCEPT !.thread.pc = "finished", !.pc = "saved",
                                     !.thread.emitted = @ + 1]
       ELSE editor' = [editor EXCEPT !.thread.pc = "died", !.pc = "saved"]
    /\ UNCHANGED <<welder, wlast, octree, opc, pk, bcsv, obj>>

EditorNext ==
    \/ EditorLoad \/ EditorSelect \/ EditorEdit \/ EditorSave
    \/ BuilderRun \/ PackNext \/ BuilderPa \/ BuilderExcept

EditorSpec == EditorInit /\ [][EditorNext]_vars

-----------------------------------------------------------------------------
(* Properties of the welder                                                *)

\* a and b are closer than t on every axis.
Close(a, b, t) ==
    /\ Abs(a.x - b.x) < t
    /\ Abs(a.y - b.y) < t
    /\ Abs(a.z - b.z) < t

WCalled == wlast.args # <<>>

WArg == wlast.args[Len(wlast.args)]

\* The vertices kept before the last call that are within the threshold of
\* its argument.
WMatches == {i \in 1..Len(wlast.before) : Close(wlast.before[i], WArg, welder.threshold)}

\* C4: after any sequence of add calls, the last call returned the index of a
\* kept vertex within the threshold of its argument on every axis; it appended
\* its argument only if no vertex kept before was within the threshold of it;
\* no two distinct kept vertices are within the threshold of each other on all
\* three axes; and (0,0,0) then (0.4,0,0) gives one kept vertex for threshold
\* 0.5 and two for 0.3.
C4_WelderTolerance ==
    /\ WCalled =>
         /\ wlast.index \in 1..Len(welder.vertices)
         /\ Close(welder.vertices[wlast.index], WArg, welder.threshold)
         /\ Len(welder.vertices) > Len(wlast.before) => WMatches = {}
    /\ \A i, j \in 1..Len(welder.vertices) :
         i # j => ~Close(welder.vertices[i], welder.vertices[j], welder.threshold)
    /\ wlast.args = <<Vector(0, 0, 0), Vector(4, 0, 0)>> =>
         Len(welder.vertices) = IF welder.threshold = 5 THEN 1 ELSE 2

\* A call with a negative coordinate that was welded onto a different vertex
\* kept in another cell, in a welder whose cells share buckets.
C4_Witness ==
    /\ WCalled
    /\ WArg.x < 0
    /\ Len(welder.vertices) = Len(wlast.before)
    /\ welder.vertices[wlast.index] # WArg
    /\ IntDiv(welder.vertices[wlast.index].x, welder.cell_width)
         # IntDiv(WArg.x, welder.cell_width)
    /\ Len(welder.vertices) > Len(welder.buckets)

\* C5 as stated: the index returned is the lowest index of a kept vertex
\* within the threshold of the argument, and kept vertices never change.
C5_LowestIndex ==
    WCalled =>
        /\ \A i \in 1..Len(wlast.before) : welder.vertices[i] = wlast.before[i]
        /\ WMatches # {} => wlast.index = SetMin(WMatches)

\* C5 amended: the index returned is that of a kept vertex within the
\* threshold (the first one the scan meets); it is the lowest such index when
\* only one kept vertex is within the threshold or the welder has one bucket;
\* a call that finds a match keeps nothing new; and the vertices kept before a
\* call are unchanged by it, so returned indices keep their position.
C5_FirstFound ==
    WCalled =>
        /\ \A i \in 1..Len(wlast.before) : welder.vertices[i] = wlast.before[i]
        /\ WMatches # {} =>
             /\ wlast.index \in WMatches
             /\ Len(welder.vertices) = Len(wlast.before)
        /\ (Cardinality(WMatches) = 1 \/ (WMatches # {} /\ Len(welder.buckets) = 1)) =>
             wlast.index = SetMin(WMatches)

\* The argument is within the threshold of two kept vertices.
C5_Witness ==
    /\ WCalled
    /\ Cardinality(WMatches) >= 2
    /\ Len(welder.buckets) = 1

-----------------------------------------------------------------------------
(* Properties of the octree                                                *)

OctreeBuilt == opc \in {"loop", "done"}

Range(q) == {q[i] : i \in 1..Len(q)}

\* The cube of the top level cell at position n of the current grid.
CellBase(o, n) ==
    VAdd(o.base, VMul(Vector(CellI(n, o.nx, o.ny), CellJ(n, o.nx, o.ny),
                             CellK(n, o.nx, o.ny)), o.base_width))

Overlaps(o, i, base, width) ==
    tribox_overlap(o.triangles[i],
                   VAdd(base, Vector(width \div 2, width \div 2, width \div 2)),
                   width \div 2)

\* The triangle indices held by the leaves at or below a node.
RECURSIVE LeafIndices(_)
LeafIndices(nd) ==
    IF nd.is_leaf THEN Range(nd.indices)
    ELSE UNION {LeafIndices(nd.children[c]) : c \in 1..Len(nd.children)}

\* C6: once the octree is constructed, and after every flattening round, every
\* triangle index is in the index list of a leaf reachable from the top level
\* grid.
C6_Coverage ==
    OctreeBuilt =>
        \A i \in 1..Len(octree.triangles) :
            \E n \in 1..Len(octree.children) : i \in LeafIndices(octree.children[n])

\* A flattened octree with a branch left at the top level and more than one
\* triangle.
C6_Witness ==
    /\ opc = "done"
    /\ octree.base_width < Min2(octree.width_x, Min2(octree.width_y, octree.width_z))
    /\ \E n \in 1..Len(octree.children) : ~octree.children[n].is_leaf
    /\ Len(octree.triangles) > 1

\* Every triangle of every leaf at or below nd overlaps the cube the leaf has
\* by its position, nd being at the cube (base, width).
RECURSIVE LeavesOverlapByPosition(_, _, _, _)
LeavesOverlapByPosition(o, nd, base, width) ==
    IF nd.is_leaf
    THEN \A i \in Range(nd.indices) : Overlaps(o, i, base, width)
    ELSE \A c \in 1..8 :
            LeavesOverlapByPosition(o, nd.children[c], OctantBase(base, width \div 2, c),
                                    width \div 2)

\* C7 as stated: in the finished octree every triangle of every leaf overlaps
\* the cube that the leaf has by its position in the final grid and its depth.
C7_LeafOverlapByPosition ==
    opc = "done" =>
        \A n \in 1..Len(octree.children) :
            LeavesOverlapByPosition(octree, octree.children[n],
                                    CellBase(octree, n), octree.base_width)

\* The cube (b1, w1) lies inside the cube (b2, w2).
CubeInside(b1, w1, b2, w2) ==
    /\ b2.x <= b1.x /\ b1.x + w1 <= b2.x + w2
    /\ b2.y <= b1.y /\ b1.y + w1 <= b2.y + w2
    /\ b2.z <= b1.z /\ b1.z + w1 <= b2.z + w2

\* C7 amended: in the finished octree every leaf below a top level branch
\* holds only triangles that overlap its cube by position; a top level leaf
\* holds only triangles that overlap the cube it was built for, which contains
\* its cell of the final grid and is that cell unless a flattening round
\* reused the leaf for the sub-cells of its cube.
C7_LeafOverlapBuiltCube ==
    opc = "done" =>
        \A n \in 1..Len(octree.children) :
            LET nd == octree.children[n]
            IN  IF nd.is_leaf
                THEN /\ \A i \in Range(nd.indices) :
                            Overlaps(octree, i, nd.built_base, nd.built_width)
                     /\ CubeInside(CellBase(octree, n), octree.base_width,
                                   nd.built_base, nd.built_width)
                     /\ nd.built_width = octree.base_width =>
                            nd.built_base = CellBase(octree, n)
                ELSE LeavesOverlapByPosition(octree, nd, CellBase(octree, n),
                                             octree.base_width)

\* A finished octree in which a flattening round reused a leaf for a cell
\* that one of its triangles does not overlap.
C7_Witness ==
    /\ opc = "done"
    /\ \E n \in 1..Len(octree.children) :
         /\ octree.children[n].is_leaf
         /\ octree.children[n].built_width > octree.base_width
         /\ \E i \in Range(octree.children[n].indices) :
              ~Overlaps(octree, i, CellBase(octree, n), octree.base_width)

\* The subdivision rule at and below a node.
RECURSIVE SubdivisionRule(_, _)
SubdivisionRule(o, nd) ==
    /\ nd.built_width >= o.min_width
    /\ IF nd.is_leaf
       THEN Len(nd.indices) <= o.max_triangles \/ nd.built_width < 2 * o.min_width
       ELSE /\ Len(nd.children) = 8
            /\ nd.built_count > o.max_triangles
            /\ nd.built_width >= 2 * o.min_width
            /\ \A c \in 1..8 :
                /\ nd.children[c].built_base
                       = OctantBase(nd.built_base, nd.built_width \div 2, c)
                /\ 2 * nd.children[c].built_width = nd.built_width
                /\ SubdivisionRule(o, nd.children[c])

RECURSIVE HasCrowdedLeaf(_, _)
HasCrowdedLeaf(o, nd) ==
    IF nd.is_leaf THEN Len(nd.indices) > o.max_triangles
    ELSE \E c \in 1..8 : HasCrowdedLeaf(o, nd.children[c])

IsPowerOfTwo(n) == \E e \in 0..30 : n = 2 ^ e

Extent(o, axis) ==
    LET T == 1..Len(o.triangles)
        cs == UNION {{o.triangles[t].u[axis], o.triangles[t].v[axis],
                      o.triangles[t].w[axis]} : t \in T}
    IN  SetMax(cs) - SetMin(cs)

\* C9: after construction and after every flattening round, width_x, width_y,
\* width_z, base_width, nx, ny, nz are powers of two, base_width*nx = width_x
\* >= max(extent_x, min_width) (likewise y, z), len(children) = nx*ny*nz and
\* base_width >= min_width.
C9_RootContainer ==
    OctreeBuilt =>
        /\ \A n \in {octree.width_x, octree.width_y, octree.width_z,
                     octree.base_width, octree.nx, octree.ny, octree.nz} :
              IsPowerOfTwo(n)
        /\ octree.base_width * octree.nx = octree.width_x
        /\ octree.base_width * octree.ny = octree.width_y
        /\ octree.base_width * octree.nz = octree.width_z
        /\ octree.width_x >= Max2(Extent(octree, "x"), octree.min_width)
        /\ octree.width_y >= Max2(Extent(octree, "y"), octree.min_width)
        /\ octree.width_z >= Max2(Extent(octree, "z"), octree.min_width)
        /\ Len(octree.children) = octree.nx * octree.ny * octree.nz
        /\ octree.base_width >= octree.min_width

\* A grid that is not a cube, after a flattening round, with a min_width that
\* is not a power of two.
C9_Witness ==
    /\ opc = "done"
    /\ octree.base_width < Min2(octree.width_x, Min2(octree.width_y, octree.width_z))
    /\ octree.nx > octree.ny
    /\ octree.min_width = 12

TopBranches(o) == {n \in 1..Len(o.children) : ~o.children[n].is_leaf}

\* Widths halve from a branch to its children, and a branch has half width
\* >= min_width.
RECURSIVE WidthsHalve(_, _)
WidthsHalve(o, nd) ==
    nd.is_leaf \/
        /\ nd.built_width \div 2 >= o.min_width
        /\ \A c \in 1..8 :
            /\ 2 * nd.children[c].built_width = nd.built_width
            /\ WidthsHalve(o, nd.children[c])

-----------------------------------------------------------------------------
(* Properties of kcl.pack                                                  *)

PackCount == NumTriangles(pk.triangles)

PackGatePassed == pk.pc # "call"

RaisedTooManyFaces == pk.pc = "raised" /\ pk.error = "too many faces"

\* C1: pack raises "too many faces" exactly when the list has 0xFFFE or more
\* triangles, and when it does nothing has been written to the stream; for
\* every shorter list the gate does not fire.
C1_FaceGate ==
    /\ (PackGatePassed /\ PackCount >= 65534) => RaisedTooManyFaces
    /\ PackCount < 65534 => pk.error # "too many faces"
    /\ pk.error = "too many faces" => pk.pc = "raised" /\ pk.stream = EmptyStream

\* The gate has fired on a list of exactly 0xFFFE triangles.
C1_Witness == RaisedTooManyFaces /\ PackCount = 65534 /\ pk.stream = EmptyStream

\* C2 as claimed: with exactly 65534 triangles pack does not raise "too many
\* faces", and with 65535 triangles it does.
C2_Boundary ==
    /\ PackCount = 65534 => pk.error # "too many faces"
    /\ (PackGatePassed /\ PackCount = 65535) => RaisedTooManyFaces

\* C2 amended: with exactly 65533 triangles the face gate does not fire, and
\* with 65534 or with 65535 triangles pack raises "too many faces".
C2_BoundaryAmended ==
    /\ PackCount = 65533 => pk.error # "too many faces"
    /\ (PackGatePassed /\ PackCount \in {65534, 65535}) => RaisedTooManyFaces

\* A list of exactly 65533 triangles has been packed to the end.
C2_Witness == PackCount = 65533 /\ pk.pc = "done" /\ pk.error = ""

\* pack has written its vertex, normal and face tables.
TablesWritten == pk.pc \in {"octree", "done"}

VertexTable == pk.vertex_welder.vertices

NormalTable == pk.normal_welder.vertices

\* The table holds a vertex within the threshold of p on every axis.
Represented(table, p, threshold) ==
    \E i \in 1..Len(table) : Close(table[i], p, threshold)

\* The four normals pack computes of a triangle (lines 390-392 and 394).
Normals(triangle) ==
    {unit(triangle.n),
     EdgeNormal(VSub(triangle.u, triangle.w), triangle.n),
     EdgeNormal(VSub(triangle.v, triangle.u), triangle.n),
     EdgeNormal(VSub(triangle.w, triangle.v), triangle.n)}

NormalsRepresented ==
    \A r \in 1..Len(pk.triangles) :
        \A n \in Normals(pk.triangles[r].tri) :
            Represented(NormalTable, n, NormalThreshold)

\* The tables are in the stream at their full length.
TablesInStream ==
    /\ Len(pk.stream.writes) >= 4
    /\ pk.stream.writes[2] = [at |-> HeaderSize, what |-> "vertices",
                              len |-> VectorSize * Len(VertexTable)]
    /\ pk.stream.writes[3].what = "normals"
    /\ pk.stream.writes[3].len = VectorSize * Len(NormalTable)

SingleTriangle == pk.triangles = <<[tri |-> PackT1, count |-> 1]>>

\* C3 as claimed: the vertex table written holds a welded representative of
\* the corners u, v and w of every triangle and the normal table one of the
\* face normal and of the three edge normals; the single triangle
\* (0,0,0),(1,0,0),(0,1,0) gives exactly 3 vertices and 4 normals.
C3_AllCorners ==
    TablesWritten =>
        /\ TablesInStream
        /\ \A r \in 1..Len(pk.triangles) :
               \A p \in {pk.triangles[r].tri.u, pk.triangles[r].tri.v,
                         pk.triangles[r].tri.w} :
                   Represented(VertexTable, p, VertexThreshold)
        /\ NormalsRepresented
        /\ SingleTriangle => Len(VertexTable) = 3 /\ Len(NormalTable) = 4

\* C3 amended: the vertex table written holds a welded representative of the
\* corner u of every triangle, every vertex of it is the corner u of some
\* triangle, and the normal table holds a representative
\* of the face normal and of the three edge normals; the single triangle
\* (0,0,0),(1,0,0),(0,1,0) gives exactly 1 vertex and 4 normals.
C3_FirstCorners ==
    TablesWritten =>
        /\ TablesInStream
        /\ \A r \in 1..Len(pk.triangles) :
               Represented(VertexTable, pk.triangles[r].tri.u, VertexThreshold)
        /\ \A i \in 1..Len(VertexTable) :
               \E r \in 1..Len(pk.triangles) : VertexTable[i] = pk.triangles[r].tri.u
        /\ NormalsRepresented
        /\ SingleTriangle => Len(VertexTable) = 1 /\ Len(NormalTable) = 4

\* The single triangle has been packed to the end.
C3_Witness ==
    /\ SingleTriangle
    /\ pk.pc = "done"
    /\ VertexTable = <<Vector(0, 0, 0)>>
    /\ Len(NormalTable) = 4

-----------------------------------------------------------------------------
(* Properties of Octree.pack                                               *)

OctreePackDone == opc = "packed"

\* The number of entries of the top level table.
RootEntries == octree.nx * octree.ny * octree.nz

\* The byte offset, from the start of the octree section, of the table that
\* holds entry e: the top level table, then tables of 8 entries.
TableBase(e) ==
    IF e <= RootEntries THEN 0
    ELSE 4 * (RootEntries + 8 * ((e - RootEntries - 1) \div 8))

\* The first byte after the tables, and the bytes of list words after it.
TablesEnd == 4 * Len(octree.packed.words)

ListBytesWritten == 2 * Len(octree.packed.list_words)

\* The position a reader recovers from the leaf word of entry e.
LeafPosition(e) == octree.packed.words[e].low + TableBase(e) + 2

\* The list words from byte offset pos on are the indices, each plus one over
\* the source's zero-based index, and then a zero.
ListAt(pos, indices) ==
    /\ pos >= TablesEnd
    /\ (pos - TablesEnd) % 2 = 0
    /\ LET k == (pos - TablesEnd) \div 2
       IN  /\ k + Len(indices) + 1 <= Len(octree.packed.list_words)
           /\ \A n \in 1..Len(indices) :
                  octree.packed.list_words[k + n] = (indices[n] - 1) + 1
           /\ octree.packed.list_words[k + Len(indices) + 1] = 0

LeafEntries == {e \in 1..Len(octree.packed.entries) : octree.packed.entries[e].is_leaf}

BranchEntries == {e \in 1..Len(octree.packed.entries) : ~octree.packed.entries[e].is_leaf}

\* C11: every leaf word written by Octree.pack is a valid uint32 with the top
\* bit set, and its low 31 bits plus the offset of its own table plus 2 is the
\* offset of the leaf's indices, each plus one, followed by a zero; for an
\* empty leaf it is the offset of the closing zero of the last list written,
\* list_base + total list bytes - 2.
C11_LeafPointers ==
    OctreePackDone =>
        \A e \in LeafEntries :
            /\ octree.packed.words[e].ok
            /\ octree.packed.words[e].high = 1
            /\ IF octree.packed.entries[e].indices # <<>>
               THEN ListAt(LeafPosition(e), octree.packed.entries[e].indices)
               ELSE /\ LeafPosition(e) = octree.packed.list_base + ListBytesWritten - 2
                    /\ ListAt(LeafPosition(e), <<>>)
                    /\ ListBytesWritten = octree.packed.list_bytes

\* An empty leaf and a leaf whose list is not the first one, both in the table
\* of a branch below the top level.
C11_Witness ==
    /\ OctreePackDone
    /\ \E e1, e2 \in LeafEntries :
        /\ e1 > RootEntries
        /\ e2 > RootEntries
        /\ octree.packed.entries[e1].indices = <<>>
        /\ octree.packed.entries[e2].indices # <<>>
        /\ LeafPosition(e2) > TablesEnd

\* The number of branch entries among the first e entries.
BranchRank(e) == Cardinality({d \in BranchEntries : d <= e})

\* C12: the tables are the top level table of nx*ny*nz entries and then one
\* table of 8 entries per branch node in the order the branch entries are
\* written; every branch word has the top bit clear and, added to the offset
\* of its own table, is the offset at which the table of that child is
\* written; list_base is 4 times the number of entries.
C12_BranchPointers ==
    OctreePackDone =>
        /\ Len(octree.packed.words) = RootEntries + 8 * Cardinality(BranchEntries)
        /\ Len(octree.packed.words) = Len(octree.packed.entries)
        /\ octree.packed.list_base = TablesEnd
        /\ \A n \in 1..RootEntries : octree.packed.entries[n] = octree.children[n]
        /\ \A e \in BranchEntries :
            LET target == octree.packed.words[e].low + TableBase(e)
            IN  /\ octree.packed.words[e].ok
                /\ octree.packed.words[e].high = 0
                /\ target = 4 * (RootEntries + 8 * (BranchRank(e) - 1))
                /\ \A c \in 1..8 :
                       octree.packed.entries[target \div 4 + c]
                           = octree.packed.entries[e].children[c]

\* A branch entry in the table of a branch below the top level, after another
\* branch entry.
C12_Witness ==
    /\ OctreePackDone
    /\ \E e \in BranchEntries : e > RootEntries /\ BranchRank(e) > 2

NonEmptyLeaves == {e \in LeafEntries : octree.packed.entries[e].indices # <<>>}

\* The bytes of the list of leaf entry e: 2*(len+1).
ListSize(e) == 2 * (Len(octree.packed.entries[e].indices) + 1)

\* The leaf entries at which a non-empty tuple is met for the first time.
FirstLeaves ==
    {e \in NonEmptyLeaves :
        \A d \in NonEmptyLeaves :
            d < e => octree.packed.entries[d].indices # octree.packed.entries[e].indices}

\* C13: every distinct non-empty index tuple is written exactly once, in the
\* order the tuples are first met, on 2*(len+1) bytes that overlap those of no
\* other tuple; leaves with identical tuples get the same position.
C13_ListDedup ==
    OctreePackDone =>
        /\ \A e1, e2 \in NonEmptyLeaves :
              octree.packed.entries[e1].indices = octree.packed.entries[e2].indices
                  => LeafPosition(e1) = LeafPosition(e2)
        /\ \A e1, e2 \in FirstLeaves :
              e1 < e2 => LeafPosition(e1) + ListSize(e1) <= LeafPosition(e2)
        /\ \A q \in TablesEnd..(TablesEnd + ListBytesWritten - 1) :
              \E e \in FirstLeaves :
                  LeafPosition(e) <= q /\ q < LeafPosition(e) + ListSize(e)
        /\ \A e \in FirstLeaves :
              ListAt(LeafPosition(e), octree.packed.entries[e].indices)

\* Two leaves hold the same tuple, and another leaf between them holds a
\* different one.
C13_Witness ==
    /\ OctreePackDone
    /\ \E e1, e2, e3 \in NonEmptyLeaves :
        /\ e1 < e2
        /\ e2 < e3
        /\ octree.packed.entries[e1].indices = octree.packed.entries[e3].indices
        /\ octree.packed.entries[e1].indices # octree.packed.entries[e2].indices
        /\ LeafPosition(e1) = LeafPosition(e3)

-----------------------------------------------------------------------------
(* Properties of the file kcl.pack writes                                  *)

PackDone == pk.pc = "done"

FirstWrite == pk.stream.writes[1]

LastWrite == pk.stream.writes[Len(pk.stream.writes)]

\* C14 as claimed: the header takes 60 bytes: pack reserves 60 zero bytes at
\* offset 0, vertex_offset is 60, and the header written last covers those 60
\* bytes.
C14_Header60 ==
    PackDone =>
        /\ FirstWrite = [at |-> 0, len |-> 60, what |-> "zeros"]
        /\ pk.header.vertex_offset = 60
        /\ LastWrite = [at |-> 0, len |-> 60, what |-> "header"]

\* C14 amended: the header takes 56 bytes: pack reserves 56 zero bytes at
\* offset 0, vertex_offset is 56, and the header written last at offset 0
\* covers exactly those bytes: every other write lies at or after offset 56
\* and the header write does not lengthen the file.
C14_Header56 ==
    PackDone =>
        /\ FirstWrite = [at |-> 0, len |-> 56, what |-> "zeros"]
        /\ pk.header.vertex_offset = 56
        /\ LastWrite = [at |-> 0, len |-> 56, what |-> "header"]
        /\ \A n \in 2..(Len(pk.stream.writes) - 1) : pk.stream.writes[n].at >= 56
        /\ pk.stream.size
               = pk.stream.writes[Len(pk.stream.writes) - 1].at
                     + pk.stream.writes[Len(pk.stream.writes) - 1].len

\* pack has written the header over the reserved bytes of a file with a body.
C14_Witness ==
    /\ PackDone
    /\ LastWrite.what = "header"
    /\ pk.stream.pos = 56
    /\ pk.stream.size > 56

\* The numbers of welded vertices and of welded normals.
NumVertices == Len(pk.vertex_welder.vertices)

NumNormals == Len(pk.normal_welder.vertices)

\* An index of the model is that of the source plus one: the index refers to
\* an entry of a table of the given length and fits in a uint16.
IndexInTable(index, length) ==
    /\ index - 1 >= 0
    /\ index - 1 < length
    /\ index - 1 <= U16Max

\* C15: after a successful pack of N triangles with V welded vertices and M
\* welded normals, vertex_offset = sizeof(Header), normal_offset =
\* vertex_offset + 12*V, face_offset = normal_offset + 12*M - 16,
\* octree_offset = face_offset + 16 + 16*N, there is one face per triangle,
\* and the indices of every face are below V (p_index) and below M (n_index,
\* a_index, b_index, c_index) and fit in a uint16.
C15_SectionOffsets ==
    PackDone =>
        /\ pk.header.vertex_offset = HeaderSize
        /\ pk.header.normal_offset = pk.header.vertex_offset + 12 * NumVertices
        /\ pk.header.face_offset = pk.header.normal_offset + 12 * NumNormals - 16
        /\ pk.header.octree_offset = pk.header.face_offset + 16 + 16 * PackCount
        /\ pk.stream.writes[2] = [at |-> pk.header.vertex_offset,
                                  len |-> 12 * NumVertices, what |-> "vertices"]
        /\ pk.stream.writes[3] = [at |-> pk.header.normal_offset,
                                  len |-> 12 * NumNormals, what |-> "normals"]
        /\ pk.stream.writes[4] = [at |-> pk.header.face_offset + 16,
                                  len |-> 16 * PackCount, what |-> "faces"]
        /\ pk.stream.writes[5].at = pk.header.octree_offset
        /\ RunsLen(pk.faces, 1) = PackCount
        /\ \A f \in 1..Len(pk.faces) :
            /\ IndexInTable(pk.faces[f].face.p_index, NumVertices)
            /\ IndexInTable(pk.faces[f].face.n_index, NumNormals)
            /\ IndexInTable(pk.faces[f].face.a_index, NumNormals)
            /\ IndexInTable(pk.faces[f].face.b_index, NumNormals)
            /\ IndexInTable(pk.faces[f].face.c_index, NumNormals)

\* A successful pack of two triangles that share no vertex and no normal
\* direction of the face.
C15_Witness ==
    /\ PackDone
    /\ PackCount = 2
    /\ NumVertices = 2
    /\ NumNormals > 4
    /\ pk.faces[2].face.p_index = 2

\* 2 to the power k.
Pow2(k) == 2 ^ k

\* A width of the model in units of the source.
InUnits(width) == width \div 4

\* mask is ~(width - 1) & 0xFFFFFFFF of a power of two width below 2^16:
\* mask + width = 2^32.
IsMaskOf(mask, width) == mask.hi = 65535 /\ mask.lo + width = 65536

\* C16: the grid fields of the header describe the top level grid after the
\* flattening loop: 2^coordinate_shift is base_width, 2^y_shift is nx and
\* 2^z_shift is nx*ny of the octree that is packed, whose top level table has
\* nx*ny*nz entries with the cell (i, j, k) at i + nx*(j + ny*k); the masks
\* are ~(width - 1) & 0xFFFFFFFF of the bounding widths; unknown0 is 40.
C16_HeaderGrid ==
    PackDone =>
        /\ Pow2(pk.header.coordinate_shift) = InUnits(pk.octree.base_width)
        /\ Pow2(pk.header.y_shift) = pk.octree.nx
        /\ Pow2(pk.header.z_shift) = pk.octree.nx * pk.octree.ny
        /\ pk.octree.nx * pk.octree.base_width = pk.octree.width_x
        /\ pk.octree.ny * pk.octree.base_width = pk.octree.width_y
        /\ pk.octree.nz * pk.octree.base_width = pk.octree.width_z
        /\ Len(pk.octree.children) = pk.octree.nx * pk.octree.ny * pk.octree.nz
        /\ \A n \in 1..Len(pk.octree.children) :
            /\ pk.octree.packed.entries[n] = pk.octree.children[n]
            /\ CubeInside(CellBase(pk.octree, n), pk.octree.base_width,
                          pk.octree.children[n].built_base,
                          pk.octree.children[n].built_width)
        /\ IsMaskOf(pk.header.x_mask, InUnits(pk.octree.width_x))
        /\ IsMaskOf(pk.header.y_mask, InUnits(pk.octree.width_y))
        /\ IsMaskOf(pk.header.z_mask, InUnits(pk.octree.width_z))
        /\ pk.header.base = pk.octree.base
        /\ pk.header.unknown0 = 40

\* A pack whose octree was flattened at least once.
C16_Witness ==
    /\ PackDone
    /\ pk.octree.base_width
           < Min2(pk.octree.width_x, Min2(pk.octree.width_y, pk.octree.width_z))
    /\ pk.header.y_shift > 0
    /\ pk.header.z_shift > pk.header.y_shift
    /\ pk.header.coordinate_shift > 0

-----------------------------------------------------------------------------
(* Properties of the surface type table                                     *)

\* The one row of a file with one entry, as a word.
FirstRow(bytes, endianess) ==
    U32At(bytes, BcsvHeaderSize + Len(SurfaceTypeFields) * BcsvFieldSize, endianess)

FitsMasks(e) ==
    /\ e.camera_id \in 0..255
    /\ e.sound_code \in 0..127
    /\ e.floor_code \in 0..63
    /\ e.wall_code \in 0..15
    /\ e.camera_through \in 0..1

SurfaceRoundTrip ==
    /\ bcsv.cls = "SurfaceTypeList"
    /\ ~bcsv.foreign
    /\ bcsv.pc = "repacked"

\* C17: a SurfaceType whose five values fit their masks packs into one
\* 32-bit row with each value at its shift (camera_id 0x12, sound_code 5,
\* floor_code 10, wall_code 3, camera_through true give 0x02650512);
\* unpacking the file gives back exactly those values, and packing the
\* unpacked table again gives a byte-identical file.
C17_SurfaceRoundTrip ==
    /\ (bcsv.cls = "SurfaceTypeList" /\ ~bcsv.foreign /\ bcsv.pc = "packed"
        /\ bcsv.entries = <<SurfaceType(18, 5, 10, 3, 1)>>)
       => FirstRow(bcsv.stream, bcsv.endianess) = [hi |-> 613, lo |-> 1298]
    /\ (bcsv.cls = "SurfaceTypeList" /\ ~bcsv.foreign
        /\ bcsv.pc \in {"packed", "unpacked", "raised", "repacked"})
       => /\ \A k \in DOMAIN bcsv.entries : FitsMasks(bcsv.entries[k])
          /\ bcsv.pc # "raised"
          /\ Len(bcsv.stream) =
                 align_length(BcsvHeaderSize + 5 * BcsvFieldSize
                              + 4 * Len(bcsv.entries), 32)
          /\ \A k \in DOMAIN bcsv.entries :
                LET e == bcsv.entries[k]
                IN  WordValue(U32At(bcsv.stream,
                        BcsvHeaderSize + 5 * BcsvFieldSize + 4 * (k - 1),
                        bcsv.endianess))
                    = e.camera_id + 256 * e.sound_code + 32768 * e.floor_code
                      + 2097152 * e.wall_code + 33554432 * e.camera_through
    /\ (bcsv.cls = "SurfaceTypeList" /\ ~bcsv.foreign
        /\ bcsv.pc \in {"unpacked", "repacked"})
       => bcsv.result.entries = bcsv.entries
    /\ SurfaceRoundTrip => bcsv.second = bcsv.stream

C17_Witness ==
    /\ SurfaceRoundTrip
    /\ bcsv.entries = <<SurfaceType(18, 5, 10, 3, 1)>>
    /\ bcsv.endianess = "<"
    /\ FirstRow(bcsv.second, "<") = [hi |-> 613, lo |-> 1298]
    /\ bcsv.result.entries[1].camera_through = 1

\* A table from elsewhere, with a field of an invalid data type and at
\* least one row, has been given to unpack.
InvalidTypeDecoded ==
    /\ bcsv.foreign
    /\ bcsv.pc \in {"unpacked", "raised"}
    /\ BcsvHeaderAt(bcsv.stream, 0, bcsv.endianess).entry_count >= 1
    /\ \E i \in DOMAIN SurfaceTypeFields :
          BcsvFieldAt(bcsv.stream, BcsvHeaderSize + (i - 1) * BcsvFieldSize,
                      bcsv.endianess).data_type \notin ValidTypes

\* C18: decoding a BCSV table that has a field whose data_type is none of
\* the six data types, and at least one row, fails with FormatError and
\* with no other exception.
C18_FormatError ==
    InvalidTypeDecoded => (bcsv.pc = "raised" /\ bcsv.result.raised = "FormatError")

\* What the decoder does on such a table: the lookup of the unbound name
\* FormatError raises NameError.
C18_NameError ==
    InvalidTypeDecoded => (bcsv.pc = "raised" /\ bcsv.result.raised = "NameError")

C18_Witness ==
    /\ InvalidTypeDecoded
    /\ bcsv.cls = "List"
    /\ bcsv.pc = "raised"
    /\ BcsvHeaderAt(bcsv.stream, 0, bcsv.endianess).entry_count = 1

-----------------------------------------------------------------------------
(* Properties of the edge normals                                           *)

\* pack has welded its one triangle.
FaceWelded == Len(pk.triangles) = 1 /\ pk.pc \in {"check", "write", "octree", "done"}

FaceTriangle == pk.triangles[1].tri

WeldedFace == pk.faces[1].face

\* The entries of the normal table the face names.
FaceA == NormalTable[WeldedFace.a_index]

FaceB == NormalTable[WeldedFace.b_index]

FaceC == NormalTable[WeldedFace.c_index]

\* C19 as claimed: for every non-degenerate triangle the edge normals a
\* (edge w-u), b (edge u-v) and c (edge v-w) of its face each have a positive
\* dot product with the vector from a point of their edge to the opposite
\* corner, and length is dot(v - u, c) of that c.
C19_Inward ==
    FaceWelded =>
        /\ dot(FaceA, VSub(FaceTriangle.v, FaceTriangle.u)) > 0
        /\ dot(FaceB, VSub(FaceTriangle.w, FaceTriangle.u)) > 0
        /\ dot(FaceC, VSub(FaceTriangle.u, FaceTriangle.v)) > 0
        /\ WeldedFace.length = dot(VSub(FaceTriangle.v, FaceTriangle.u), FaceC)

\* C19 amended: the three edge normals each have a negative dot product with
\* the vector from a point of their edge to the opposite corner, that is
\* they point away from the interior, and length is dot(v - u, c) of that c,
\* which is positive.
C19_Outward ==
    FaceWelded =>
        /\ dot(FaceA, VSub(FaceTriangle.v, FaceTriangle.u)) < 0
        /\ dot(FaceB, VSub(FaceTriangle.w, FaceTriangle.u)) < 0
        /\ dot(FaceC, VSub(FaceTriangle.u, FaceTriangle.v)) < 0
        /\ WeldedFace.length = dot(VSub(FaceTriangle.v, FaceTriangle.u), FaceC)
        /\ WeldedFace.length > 0

\* The triangle (0,0,0),(1,0,0),(0,1,0) packed: b is (0,-1,0), away from the
\* corner w.
C19_Witness ==
    /\ pk.pc = "done"
    /\ FaceWelded
    /\ FaceTriangle = PackT1
    /\ FaceB = Vector(0, -4194304, 0)
    /\ FaceA = Vector(-4194304, 0, 0)
    /\ FaceC.x > 0 /\ FaceC.y > 0 /\ FaceC.z = 0

-----------------------------------------------------------------------------
(* Properties of the OBJ reader                                             *)

\* The face lines read so far whose cross product squared is 0.001 or more.
FacesKept ==
    SelectSeq(obj.faces,
        LAMBDA f : norm_square(cross(VSub(f.v, f.u), VSub(f.w, f.u))) * 1000
                       >= ObjScale ^ 4)

NoDuplicates(list) ==
    \A i \in DOMAIN list : \A j \in DOMAIN list : list[i] = list[j] => i = j

\* C20: at every point of WavefrontOBJ.unpack over 'v', 'usemtl' and 'f'
\* lines, group_names has no duplicates; the triangles are the faces read
\* with |cross(v-u, w-u)|^2 >= 0.001, in the order read, none below 0.001;
\* the group_index of each is at least 0, below len(group_names), and names
\* the material of the last usemtl before its face; and the surface type
\* list the editor builds has one entry per group, so that every
\* group_index is that of an existing row.
C20_ObjIngestion ==
    /\ NoDuplicates(obj.group_names)
    /\ Len(obj.triangles) = Len(FacesKept)
    /\ \A k \in DOMAIN obj.triangles :
          LET t == obj.triangles[k]
          IN  /\ t.u = FacesKept[k].u /\ t.v = FacesKept[k].v /\ t.w = FacesKept[k].w
              /\ t.group_index >= 0
              /\ t.group_index < Len(obj.group_names)
              /\ obj.group_names[t.group_index + 1] = FacesKept[k].material
              /\ norm_square(cross(VSub(t.v, t.u), VSub(t.w, t.u))) * 1000
                     >= ObjScale ^ 4
    /\ obj.pc = "loaded" =>
          /\ Len(obj.surface_types) = Len(obj.group_names)
          /\ \A k \in DOMAIN obj.triangles :
                obj.triangles[k].group_index + 1 \in DOMAIN obj.surface_types

\* After the six vertices: usemtl b, usemtl a, a face on one line (dropped)
\* and a face that is kept, loaded by the editor: groups default, b, a and
\* one triangle, of group a.
C20_Witness ==
    /\ obj.pc = "loaded"
    /\ obj.group_names = <<"default group", "b", "a">>
    /\ Len(obj.faces) = 2
    /\ Len(obj.triangles) = 1
    /\ obj.faces[1].w = Vector(64, 0, 0)
    /\ obj.triangles[1].group_index = 2
    /\ obj.material = "a"
    /\ Len(obj.surface_types) = 3

-----------------------------------------------------------------------------
(* Properties of the editor                                                 *)

\* kcl.pack has raised GeometryOverflowError.
Overflowed ==
    /\ pk.pc = "raised"
    /\ pk.error \in {"too many faces", "too many vertices", "too many normals"}

ThreadStarted == editor.thread.pc \in {"packing", "finished", "died"}

SavedPa == editor.thread.pc = "finished" /\ editor.thread.pa_opened

\* C22: after any selections, edits and a save, the surface types handed to
\* SurfaceTypeList.pack are, for every group, the values the widgets last
\* showed of it, the edits of the selected group since its selection
\* included.
C22_EditsSaved ==
    SavedPa => \A group \in DOMAIN editor.shown :
                  editor.thread.handed[group] = editor.shown[group]

\* What save keeps: of every group but the selected one the values last
\* shown, of the selected one the values it had when it was selected.
C22_OthersSaved ==
    SavedPa => /\ DOMAIN editor.thread.handed = DOMAIN editor.shown
               /\ \A group \in DOMAIN editor.shown :
                     group # editor.current_row =>
                        editor.thread.handed[group] = editor.shown[group]

\* Group 1 selected, camera_id set to 18, saved: the row handed over still
\* has camera_id 0xFF.
C22_Witness ==
    /\ SavedPa
    /\ editor.current_row = 1
    /\ editor.widgets.camera_id = 18
    /\ editor.shown[1].camera_id = 18
    /\ editor.thread.handed[1].camera_id = 255
    /\ WordValue(FirstRow(editor.thread.pa, "<")) % 256 = 255

=============================================================================
